---- MODULE Spec2Model ----
(***************************************************************************)
(* Warehouse inventory engine of Nae-backend.                              *)
(*                                                                         *)
(* Two engines live in the repository and both are modelled here:          *)
(*   - the store crate (store/src): Db::record_ops driving the ordered     *)
(*     topology DateTypeStoreBatchId and the checkpoint topology           *)
(*     CheckDateStoreBatch, each KV call writing straight to the database; *)
(*   - the animo engine (src/animo): OpsManager::write_ops and             *)
(*     write_aggregation_delta collecting writes in a Txn write batch,     *)
(*     WarehouseBalance::get_memo reading and memoising balances.          *)
(*                                                                         *)
(* Time is a small integer; a month has DaysPerMonth instants and month m  *)
(* starts at instant m * DaysPerMonth.  Instant 0 is 1970-01-01, the       *)
(* default of get_latest_checkpoint_date.  Identifiers (UUIDs) are small   *)
(* positive integers, UUID_NIL is 0 and UUID_MAX is above all of them.     *)
(***************************************************************************)
EXTENDS Integers, Sequences, FiniteSets, TLC

----------------------------------------------------------------------------
(* Bounds of the model *)

DaysPerMonth == 2
MaxMonth == 2
MaxOps == 2
NStores == 1
MaxQty == 2
MaxCalls == 4
MaxFailCalls == 3
MaxConcCalls == 3
MaxAnimoCalls == 4
NGoods == 2
MaxListLen == 1

(* the cost of one unit in the operations the callers record *)
UnitCost == 5

(* Program constants *)

UUID_NIL == 0
U8_MAX == 255

UUID_MAX == MaxOps + NStores + 1
U64_MAX == (MaxMonth + 3) * DaysPerMonth

Stores == 1..NStores
GoodsIds == {1}
OpIds == 1..MaxOps
OpDates == DaysPerMonth..((MaxMonth + 1) * DaysPerMonth - 1)
QueryDates == DaysPerMonth..((MaxMonth + 2) * DaysPerMonth - 1)
----------------------------------------------------------------------------
(* Calendar *)

first_day_current_month(d) == (d \div DaysPerMonth) * DaysPerMonth

first_day_next_month(d) == ((d \div DaysPerMonth) + 1) * DaysPerMonth

----------------------------------------------------------------------------
(* Balances and operations *)

Zero == [qty |-> 0, cost |-> 0]

BalAdd(a, b) == [qty |-> a.qty + b.qty, cost |-> a.cost + b.cost]

BalSub(a, b) == [qty |-> a.qty - b.qty, cost |-> a.cost - b.cost]

BalNeg(a) == [qty |-> 0 - a.qty, cost |-> 0 - a.cost]

(* Option<InternalOperation>::None *)
None == [type |-> "None", qty |-> 0, cost |-> 0]

Receive(q, c) == [type |-> "Receive", qty |-> q, cost |-> c]

Issue(q, c) == [type |-> "Issue", qty |-> q, cost |-> c]

OpVals == {Receive(q, q * UnitCost) : q \in 1..MaxQty} \cup {Issue(1, UnitCost)}

(* the signed (qty, cost) delta of an InternalOperation *)
to_delta(o) ==
  IF o.type = "Receive" THEN [qty |-> o.qty, cost |-> o.cost]
  ELSE IF o.type = "Issue" THEN [qty |-> 0 - o.qty, cost |-> 0 - o.cost]
  ELSE Zero

(* the batch opened by a receive: (date, id) *)
TheBatch == [date |-> DaysPerMonth, id |-> 1]

Tuples == {[store |-> s, goods |-> g, batch |-> TheBatch] : s \in Stores, g \in GoodsIds}

TupleOf(r) == [store |-> r.store, goods |-> r.goods, batch |-> r.batch]

----------------------------------------------------------------------------
(* Keys: fixed-width big-endian concatenations, compared bytewise; a key  *)
(* is the tuple of its fields.                                             *)

LexLess(a, b) ==
  \E i \in 1..Len(a) :
    /\ a[i] < b[i]
    /\ \A j \in 1..(i - 1) : a[j] = b[j]

LexLeq(a, b) == a = b \/ LexLess(a, b)

op_order(o) == IF o.type = "Receive" THEN 0 ELSE U8_MAX

key_build(store, goods, batch, date, order, op_id, is_dependant) ==
  <<date, order, store, goods, batch.date, batch.id, op_id,
    IF is_dependant THEN 1 ELSE 0>>

OpKey(op) ==
  key_build(op.store, op.goods, op.batch, op.date, op_order(op.op), op.id, op.is_dependent)

CheckKey(store, goods, batch, date) == <<date, store, goods, batch.date, batch.id>>

----------------------------------------------------------------------------
(* State *)

VARIABLES
  ops,      \* column family of the ordered topology: key -> [op, balance]
  chk,      \* column family of the checkpoint topology: key -> BalanceForGoods
  latest,   \* the value under key_latest_checkpoint_date, when stored
  writers,  \* the threads that call record_ops
  budget,   \* the number of record_ops calls the callers make
  pc,       \* per writer: where it is in record_ops
  todo,     \* per writer: the mutations of the list not processed yet
  new_ops,  \* per writer: the mutations handed to checkpoint_update
  rd,       \* per writer: what checkpoint_update has read
  result,   \* per writer: the result of its last record_ops call
  cur,      \* per writer: the call it is in: [list, kind, before, mstart, wf]
  calls,    \* number of record_ops calls started
  hist,     \* the last two completed calls: [list, kind, before, result, wf]
  race,     \* the calls in flight since the database was last quiescent
  a_ops,    \* animo: column family of operations, position -> BalanceOperation
  a_values, \* animo: the memos of WarehouseBalance, position -> Balance
  a_stock,  \* animo: the checkpoints of WarehouseStock, position -> Balance
  a_read,   \* animo: the last balance read: [store, goods, time, balance]
  a_calls,  \* animo: number of modifications and reads made
  bad,      \* the stored values whose bytes do not decode: <<column family, key>>
  answer,   \* what the last query of Db returned: [call, args, ok, error, value]
  d_files,  \* document log: the version files of the document, name -> content
  d_link,   \* document log: the target of latest.json, when the link exists
  d_pc,     \* document log: where the writer is in save_data
  d_req,    \* document log: the write in progress: [time, body]
  d_clock,  \* document log: the clock, Utc::now()
  d_log,    \* document log: the writes made so far: [time, body, result]
  composed,  \* key composition: the two inputs last composed and their keys
  d_ops,  \* document log: the operations stored for the document, by line
  page,  \* service: the params last given to limit and its result
  a_pend,  \* animo: the read and the mutation in progress, each with its snapshot
  sessions,  \* commutator: the sessions, the sids connected
  events,  \* commutator: the channel of events, crossbeam bounded(1)
  handling,  \* commutator: per caller of handle, where it is and its mutation
  in_hand,  \* commutator: the event the broadcasting thread has received
  sent,  \* commutator: the events sent, each with the sessions it went to
  completed  \* commutator: the mutations the services have completed, in order

animoVars == <<a_ops, a_values, a_stock, a_read, a_calls>>

queryVars == <<bad, answer>>

docVars == <<d_files, d_link, d_pc, d_req, d_clock, d_log>>

otherVars == <<composed, d_ops, page, a_pend, sessions, events, handling, in_hand, sent, completed>>

busVars == <<sessions, events, handling, in_hand, sent, completed>>

recordVars == <<ops, chk, latest, writers, budget, pc, todo, new_ops, rd, result, cur, calls, hist, race>>

vars == <<ops, chk, latest, writers, budget, pc, todo, new_ops, rd, result, cur, calls, hist, race,
          a_ops, a_values, a_stock, a_read, a_calls,
         bad, answer, d_files, d_link, d_pc, d_req, d_clock, d_log,
         composed, d_ops, page, a_pend, sessions, events, handling, in_hand, sent, completed>>

(* the persistent state *)
KV == [ops |-> ops, chk |-> chk, latest |-> latest]

EmptyCF == [k \in {} |-> Zero]

NoLatest == [set |-> FALSE, date |-> 0]

EmptyKV == [ops |-> EmptyCF, chk |-> EmptyCF, latest |-> NoLatest]

----------------------------------------------------------------------------
(* Ordered topology DateTypeStoreBatchId *)

(* Op of an OpMutation side *)
to_op(m, o) ==
  [id |-> m.id, date |-> m.date, store |-> m.store, goods |-> m.goods, batch |-> m.batch,
   op |-> o, is_dependent |-> FALSE, dependant |-> <<>>]

put(cf, op, balance) ==
  [k \in DOMAIN cf \cup {OpKey(op)} |->
     IF k = OpKey(op) THEN [op |-> op, balance |-> balance] ELSE cf[k]]

get(cf, op) == IF OpKey(op) \in DOMAIN cf THEN <<cf[OpKey(op)]>> ELSE <<>>

del(cf, op) == [k \in DOMAIN cf \ {OpKey(op)} |-> cf[k]]

(* the keys of S in ascending byte order *)
RECURSIVE Ascending(_)
Ascending(S) ==
  IF S = {} THEN <<>>
  ELSE LET k == CHOOSE x \in S : \A y \in S : LexLeq(x, y)
       IN <<k>> \o Ascending(S \ {k})

OpsFrom(ts) == <<ts, 0, UUID_NIL, UUID_NIL, 0, UUID_NIL, UUID_NIL, 0>>

OpsTill(ts) == <<ts, U8_MAX, UUID_MAX, UUID_MAX, U64_MAX, UUID_MAX, UUID_MAX, 1>>

get_ops_for_all(cf, from_date, till_date) ==
  LET inRange == {k \in DOMAIN cf : LexLeq(OpsFrom(from_date), k) /\ LexLess(k, OpsTill(till_date))}
      keys == Ascending(inRange)
  IN [i \in 1..Len(keys) |-> cf[keys[i]].op]

----------------------------------------------------------------------------
(* Checkpoint topology CheckDateStoreBatch *)

get_balance(c, key) == IF key \in DOMAIN c THEN c[key] ELSE Zero

set_balance(c, key, balance) ==
  [k \in DOMAIN c \cup {key} |-> IF k = key THEN balance ELSE c[k]]

del_balance(c, key) == [k \in DOMAIN c \ {key} |-> c[k]]

get_latest_checkpoint_date(l) == IF l.set THEN l.date ELSE 0

set_latest_checkpoint_date(date) == [set |-> TRUE, date |-> date]

CheckFrom(ts) == <<ts, UUID_NIL, UUID_NIL, 0, UUID_NIL>>

CheckTill(ts) == <<ts, UUID_MAX, UUID_MAX, U64_MAX, UUID_MAX>>

key_to_data(k) ==
  [date |-> k[1], store |-> k[2], goods |-> k[3], batch |-> [date |-> k[4], id |-> k[5]]]

(* (checkpoint_date, store -> goods -> batch -> balance), the map keyed by the tuple *)
get_checkpoints_for_all(c, l, date) ==
  LET start_of_current_month_date == first_day_current_month(date)
      latest_checkpoint_date == get_latest_checkpoint_date(l)
      checkpoint_date ==
        IF start_of_current_month_date > latest_checkpoint_date
        THEN latest_checkpoint_date ELSE start_of_current_month_date
      found == {k \in DOMAIN c :
                  LexLeq(CheckFrom(checkpoint_date), k) /\ LexLess(k, CheckTill(checkpoint_date))}
      tuples == {TupleOf(key_to_data(k)) : k \in found}
  IN [date |-> checkpoint_date,
      balances |-> [t \in tuples |->
                      c[CHOOSE k \in found : TupleOf(key_to_data(k)) = t]]]

----------------------------------------------------------------------------
(* Balance queries *)

RECURSIVE ApplyOps(_, _)
ApplyOps(balances, seq) ==
  IF seq = <<>> THEN balances
  ELSE LET o == Head(seq)
           t == TupleOf(o)
           bal == IF t \in DOMAIN balances THEN balances[t] ELSE Zero
           next == [x \in DOMAIN balances \cup {t} |->
                      IF x = t THEN BalAdd(bal, to_delta(o.op)) ELSE balances[x]]
       IN ApplyOps(next, Tail(seq))

get_balances_for_all(cf, from_date, till_date, checkpoints) ==
  ApplyOps(checkpoints, get_ops_for_all(cf, from_date, till_date))

get_balance_for_all(kv, date) ==
  LET cp == get_checkpoints_for_all(kv.chk, kv.latest, date)
  IN get_balances_for_all(kv.ops, cp.date, date, cp.balances)

balance_on(kv, t, date) ==
  LET all == get_balance_for_all(kv, date)
  IN IF t \in DOMAIN all THEN all[t] ELSE Zero

----------------------------------------------------------------------------
(* Op Processor: the ordered-topology write of one mutation *)

category(m) ==
  IF m.before = m.after THEN "no-op"
  ELSE IF m.before = None THEN "insert"
  ELSE IF m.after = None THEN "delete"
  ELSE "update"

(* the running balance stored immediately before key k for the tuple of op *)
previous_balance(cf, op) ==
  LET earlier == {k \in DOMAIN cf : TupleOf(cf[k].op) = TupleOf(op) /\ LexLess(k, OpKey(op))}
  IN IF earlier = {} THEN Zero
     ELSE cf[CHOOSE k \in earlier : \A j \in earlier : LexLeq(j, k)].balance

(* the entries from just after the op to the next checkpoint boundary *)
following(cf, op) ==
  {k \in DOMAIN cf :
     /\ TupleOf(cf[k].op) = TupleOf(op)
     /\ LexLess(OpKey(op), k)
     /\ k[1] < first_day_next_month(op.date)}

RECURSIVE put_all(_, _, _)
put_all(cf, keys, delta) ==
  IF keys = {} THEN cf
  ELSE LET k == CHOOSE x \in keys : TRUE
       IN put_all(put(cf, cf[k].op, BalAdd(cf[k].balance, delta)), keys \ {k}, delta)

propagate(cf, op, delta) == put_all(cf, following(cf, op), delta)

insert_op(cf, op) ==
  LET delta == to_delta(op.op)
  IN propagate(put(cf, op, BalAdd(previous_balance(cf, op), delta)), op, delta)

remove_op(cf, op) == propagate(del(cf, op), op, BalNeg(to_delta(op.op)))

data_update(cf, m) ==
  LET c == category(m)
  IN IF c = "insert" THEN insert_op(cf, to_op(m, m.after))
     ELSE IF c = "delete" THEN remove_op(cf, to_op(m, m.before))
     ELSE IF c = "update" THEN insert_op(remove_op(cf, to_op(m, m.before)), to_op(m, m.after))
     ELSE cf

----------------------------------------------------------------------------
(* Op Processor: the checkpoint update of one mutation *)

RECURSIVE SumDeltas(_, _)
SumDeltas(cf, keys) ==
  IF keys = {} THEN Zero
  ELSE LET k == CHOOSE x \in keys : TRUE
       IN BalAdd(to_delta(cf[k].op.op), SumDeltas(cf, keys \ {k}))

net_delta(m) == BalSub(to_delta(m.after), to_delta(m.before))

(* the boundaries at or after date stored for the tuple of m *)
boundaries_from(c, m, date) ==
  {k \in DOMAIN c : TupleOf(key_to_data(k)) = TupleOf(m) /\ k[1] >= date}

(* the balance of a boundary created at date: the most recent earlier       *)
(* checkpoint of the tuple plus the ordered topology in [that checkpoint,   *)
(* date)                                                                    *)
walk(c, cf, m, date) ==
  LET earlier == {k \in DOMAIN c : TupleOf(key_to_data(k)) = TupleOf(m) /\ k[1] < date}
      base == IF earlier = {} THEN [date |-> 0, balance |-> Zero]
              ELSE LET k == CHOOSE x \in earlier : \A y \in earlier : y[1] <= x[1]
                   IN [date |-> k[1], balance |-> get_balance(c, k)]
      between == {k \in DOMAIN cf :
                    /\ TupleOf(cf[k].op) = TupleOf(m)
                    /\ base.date <= k[1]
                    /\ k[1] < date}
  IN BalAdd(base.balance, SumDeltas(cf, between))

(* the set_balance calls of checkpoint_update, from what it has read *)
checkpoint_writes(c, cf, m) ==
  LET date == first_day_next_month(m.date)
      present == boundaries_from(c, m, date)
      created == CheckKey(m.store, m.goods, m.batch, date)
  IN IF present # {}
     THEN [k \in present |-> BalAdd(get_balance(c, k), net_delta(m))]
     ELSE [k \in {created} |-> walk(c, cf, m, date)]

RECURSIVE set_balances(_, _)
set_balances(c, writes) ==
  IF DOMAIN writes = {} THEN c
  ELSE LET k == CHOOSE x \in DOMAIN writes : TRUE
       IN set_balances(set_balance(c, k, writes[k]),
                       [j \in DOMAIN writes \ {k} |-> writes[j]])

advance_latest(l, m) ==
  LET date == first_day_next_month(m.date)
      current == get_latest_checkpoint_date(l)
  IN set_latest_checkpoint_date(IF current > date THEN current ELSE date)

(* what a read of the three stores returns *)
read_all(kv) == [chk |-> kv.chk, latest |-> kv.latest, ops |-> kv.ops]

checkpoint_update(kv, r, m) ==
  [ops |-> kv.ops,
   chk |-> set_balances(kv.chk, checkpoint_writes(r.chk, r.ops, m)),
   latest |-> advance_latest(r.latest, m)]

(* one mutation and a whole list, run without interruption *)
record_op(kv, m) ==
  LET written == [kv EXCEPT !.ops = data_update(kv.ops, m)]
  IN checkpoint_update(written, read_all(written), m)

RECURSIVE record_ops(_, _)
record_ops(kv, list) ==
  IF list = <<>> THEN kv ELSE record_ops(record_op(kv, Head(list)), Tail(list))

----------------------------------------------------------------------------
(* The callers of record_ops: the mutations a document write can produce *)

Writers == {1, 2}

stored(cf) == {cf[k].op : k \in DOMAIN cf}

mutation(o, before, after) ==
  [id |-> o.id, date |-> o.date, store |-> o.store, goods |-> o.goods, batch |-> o.batch,
   before |-> before, after |-> after]

(* the ids of the operations of the calls in flight *)
in_flight == UNION {{cur[w].list[i].id : i \in 1..Len(cur[w].list)} : w \in Writers}

(* a new document gets an id no other document has *)
fresh_ids(cf) == {i \in OpIds \ in_flight : \A o \in stored(cf) : o.id # i}

inserts(cf) ==
  IF fresh_ids(cf) = {} THEN {}
  ELSE LET i == CHOOSE x \in fresh_ids(cf) : \A y \in fresh_ids(cf) : x <= y
       IN {[id |-> i, date |-> d, store |-> s, goods |-> g, batch |-> TheBatch,
            before |-> None, after |-> v] :
             d \in OpDates, s \in Stores, g \in GoodsIds, v \in OpVals}

updates(cf) == {mutation(o, o.op, v) : o \in stored(cf), v \in OpVals}

deletes(cf) == {mutation(o, o.op, None) : o \in stored(cf)}

mutations(cf) == inserts(cf) \cup updates(cf) \cup deletes(cf)

(* the lists of at most n mutations, each well formed where it is applied *)
RECURSIVE lists(_, _)
lists(kv, n) ==
  IF n = 0 THEN {<<>>}
  ELSE {<<>>} \cup
       UNION {{<<m>> \o rest : rest \in lists(record_op(kv, m), n - 1)} : m \in mutations(kv.ops)}

swapped(m) == [m EXCEPT !.before = m.after, !.after = m.before]

reversed(list) == [i \in 1..Len(list) |-> swapped(list[Len(list) + 1 - i])]

NoCall == [list |-> <<>>, kind |-> "none", before |-> EmptyKV, mstart |-> EmptyKV, wf |-> TRUE]

NoRace == [base |-> EmptyKV, lists |-> <<>>]

NoRead == [store |-> 0, goods |-> 0, time |-> 0, balance |-> Zero]

Idle(w) == pc[w] = "idle"

Quiescent == \A w \in Writers : Idle(w)

last_two(h) == IF Len(h) > 2 THEN Tail(h) ELSE h

(* every call so far returned Ok and carried mutations whose before is the  *)
(* stored operation, as the document log derives them                       *)
WellFormed == hist = <<>> \/ hist[Len(hist)].wf

----------------------------------------------------------------------------
(* Db::record_ops, step by step *)

(* the values of the query and document variables before anything is done *)
NoAnswer == [call |-> "none", args |-> <<>>, ok |-> TRUE, error |-> "", value |-> <<>>]

NoFiles == <<>>

NoLink == 0

(* the instants of the clock within one value of time_to_string *)
TicksPerSecond == 2

NoWrite == [time |-> 0, body |-> 0]

NoKeys == <<>>

(* no operation is stored for the document *)
NoOps == <<>>

(* the threads that call Application::handle: the Commutator actor, for  *)
(* the requests of the sockets, and the dispatcher thread of the         *)
(* application, for the mutations sent to it                             *)
Callers == {"actor", "dispatcher"}

NoMutation == [pc |-> "idle", id |-> 0, service |-> ""]

NotHandling == [c \in Callers |-> NoMutation]

(* no read and no mutation is in progress *)
NoPending == [read |-> <<>>, txn |-> <<>>, overlapped |-> FALSE]

(* limit has not been called *)
NoPage == <<>>

InitWith(ws, n) ==
  /\ ops = EmptyCF
  /\ chk = EmptyCF
  /\ latest = NoLatest
  /\ writers = ws
  /\ budget = n
  /\ pc = [w \in Writers |-> "idle"]
  /\ todo = [w \in Writers |-> <<>>]
  /\ new_ops = [w \in Writers |-> <<>>]
  /\ rd = [w \in Writers |-> read_all(EmptyKV)]
  /\ result = [w \in Writers |-> "none"]
  /\ cur = [w \in Writers |-> NoCall]
  /\ calls = 0
  /\ hist = <<>>
  /\ race = NoRace
  /\ a_ops = EmptyCF
  /\ a_values = EmptyCF
  /\ a_stock = EmptyCF
  /\ a_read = NoRead
  /\ a_calls = 0
  /\ bad = {}
  /\ answer = NoAnswer
  /\ d_files = NoFiles
  /\ d_link = NoLink
  /\ d_pc = "idle"
  /\ d_req = NoWrite
  /\ d_clock = TicksPerSecond
  /\ d_log = <<>>
  /\ composed = NoKeys
  /\ d_ops = NoOps
  /\ page = NoPage
  /\ a_pend = NoPending
  /\ sessions = {}
  /\ events = <<>>
  /\ handling = NotHandling
  /\ in_hand = <<>>
  /\ sent = <<>>
  /\ completed = <<>>

Init == InitWith({1}, MaxCalls)

Enter(w, list, kind) ==
  /\ list # <<>>
  /\ pc' = [pc EXCEPT ![w] = "data_update"]
  /\ todo' = [todo EXCEPT ![w] = list]
  /\ cur' = [cur EXCEPT ![w] = [list |-> list, kind |-> kind, before |-> KV, mstart |-> KV,
                                wf |-> WellFormed /\ list \in lists(KV, Len(list))]]
  /\ result' = [result EXCEPT ![w] = "running"]
  /\ race' = IF Quiescent THEN [base |-> KV, lists |-> <<list>>]
             ELSE [race EXCEPT !.lists = Append(@, list)]
  /\ calls' = calls + 1
  /\ UNCHANGED <<ops, chk, latest, writers, budget, new_ops, rd, hist>>
  /\ UNCHANGED animoVars
  /\ UNCHANGED otherVars
  /\ UNCHANGED queryVars
  /\ UNCHANGED docVars

(* a caller enters record_ops with a new list *)
Start(w) ==
  /\ w \in writers
  /\ Idle(w)
  /\ calls < budget
  /\ \E list \in lists(KV, MaxListLen) : Enter(w, list, "new")

(* a caller enters record_ops with the list of the last completed call *)
Replay(w) ==
  /\ w \in writers
  /\ Idle(w)
  /\ calls < budget
  /\ hist # <<>>
  /\ Enter(w, hist[Len(hist)].list, "replay")

(* a caller enters record_ops with the last completed list, before and after swapped *)
Reverse(w) ==
  /\ w \in writers
  /\ Idle(w)
  /\ calls < budget
  /\ hist # <<>>
  /\ Enter(w, reversed(hist[Len(hist)].list), "reverse")

(* ordered_topology.data_update(op, checkpoints) *)
DataUpdate(w) ==
  /\ pc[w] = "data_update"
  /\ LET m == Head(todo[w])
     IN /\ ops' = data_update(ops, m)
        /\ new_ops' = [new_ops EXCEPT ![w] = <<m>>]
        /\ cur' = [cur EXCEPT ![w].mstart = KV]
  /\ pc' = [pc EXCEPT ![w] = "checkpoint_read"]
  /\ UNCHANGED <<chk, latest, writers, budget, todo, rd, result, calls, hist, race>>
  /\ UNCHANGED animoVars
  /\ UNCHANGED otherVars
  /\ UNCHANGED queryVars
  /\ UNCHANGED docVars

(* checkpoint_update reads the balances it will change *)
CheckpointRead(w) ==
  /\ pc[w] = "checkpoint_read"
  /\ rd' = [rd EXCEPT ![w] = read_all(KV)]
  /\ pc' = [pc EXCEPT ![w] = "checkpoint_write"]
  /\ UNCHANGED <<ops, chk, latest, writers, budget, todo, new_ops, result, cur, calls, hist, race>>
  /\ UNCHANGED animoVars
  /\ UNCHANGED otherVars
  /\ UNCHANGED queryVars
  /\ UNCHANGED docVars

Leave(w, res) ==
  /\ pc' = [pc EXCEPT ![w] = "idle"]
  /\ todo' = [todo EXCEPT ![w] = <<>>]
  /\ new_ops' = [new_ops EXCEPT ![w] = <<>>]
  /\ rd' = [rd EXCEPT ![w] = read_all(EmptyKV)]
  /\ result' = [result EXCEPT ![w] = res]
  /\ cur' = [cur EXCEPT ![w] = NoCall]
  /\ hist' = last_two(Append(hist,
               [list |-> cur[w].list, kind |-> cur[w].kind, before |-> cur[w].before,
                result |-> res, wf |-> cur[w].wf /\ res = "ok"]))

(* checkpoint_update writes them, and record_ops goes on to the next mutation *)
CheckpointWrite(w) ==
  /\ pc[w] = "checkpoint_write"
  /\ LET after == checkpoint_update(KV, rd[w], Head(new_ops[w]))
     IN /\ chk' = after.chk
        /\ latest' = after.latest
  /\ IF Tail(todo[w]) = <<>>
     THEN Leave(w, "ok")
     ELSE /\ pc' = [pc EXCEPT ![w] = "data_update"]
          /\ todo' = [todo EXCEPT ![w] = Tail(@)]
          /\ UNCHANGED <<new_ops, rd, result, cur, hist>>
  /\ UNCHANGED <<ops, writers, budget, calls, race>>
  /\ UNCHANGED animoVars
  /\ UNCHANGED otherVars
  /\ UNCHANGED queryVars
  /\ UNCHANGED docVars

(* a KV call returns Err and `?` leaves record_ops *)
Fail(w) ==
  /\ pc[w] # "idle"
  /\ Leave(w, "err")
  /\ UNCHANGED <<ops, chk, latest, writers, budget, calls, race>>
  /\ UNCHANGED animoVars
  /\ UNCHANGED otherVars
  /\ UNCHANGED queryVars
  /\ UNCHANGED docVars

Next ==
  \E w \in Writers :
    \/ Start(w)
    \/ Replay(w)
    \/ Reverse(w)
    \/ DataUpdate(w)
    \/ CheckpointRead(w)
    \/ CheckpointWrite(w)

Spec == Init /\ [][Next]_vars

----------------------------------------------------------------------------
(* Properties of the store engine *)

naive_sum(cf, t, date) ==
  SumDeltas(cf, {k \in DOMAIN cf : TupleOf(cf[k].op) = t /\ k[1] <= date})

(* C1: after any sequence of record_ops calls, for every tuple and every   *)
(* date D the balance query at D equals the naive sum of the deltas of the  *)
(* stored operations of the tuple with ts <= D.                             *)
C1_BalanceIsNaiveSum ==
  (Quiescent /\ WellFormed) =>
    \A t \in Tuples : \A date \in QueryDates :
      balance_on(KV, t, date) = naive_sum(ops, t, date)

adjacent(cf, k1, k2) ==
  /\ TupleOf(cf[k1].op) = TupleOf(cf[k2].op)
  /\ LexLess(k1, k2)
  /\ \A k \in DOMAIN cf :
       TupleOf(cf[k].op) = TupleOf(cf[k1].op) => ~(LexLess(k1, k) /\ LexLess(k, k2))

(* C3: for any two adjacent operations of the same tuple in the ordered    *)
(* topology, the running balance stored with the later one equals the       *)
(* running balance stored with the earlier one plus the later one's delta.  *)
C3_RunningBalances ==
  (Quiescent /\ WellFormed) =>
    \A k1 \in DOMAIN ops : \A k2 \in DOMAIN ops :
      adjacent(ops, k1, k2) =>
        ops[k2].balance = BalAdd(ops[k1].balance, to_delta(ops[k2].op.op))

(* C5: re-applying an identical OpMutation list leaves the KV state as the *)
(* first run left it.                                                       *)
C5_ReplayIsIdempotent ==
  (Quiescent /\ Len(hist) = 2 /\ hist[1].wf /\ hist[2].kind = "replay") =>
    KV = hist[2].before

(* C6: recording a mutation and then the mutation with before and after    *)
(* swapped yields the KV state from before the mutation.                    *)
C6_ReverseRestores ==
  (Quiescent /\ Len(hist) = 2 /\ hist[1].wf /\ hist[2].kind = "reverse") =>
    KV = hist[1].before

is_delete(list) == Len(list) = 1 /\ category(list[1]) = "delete"

(* C7: with an operation recorded, deleting it and reinserting it with the *)
(* identical mutation yields the KV state from before the delete.           *)
C7_DeleteReinsert ==
  (Quiescent /\ Len(hist) = 2 /\ hist[1].wf /\ hist[2].kind = "reverse"
     /\ is_delete(hist[1].list)) =>
    ops = hist[1].before.ops /\ chk = hist[1].before.chk /\ latest = hist[1].before.latest

(* C9: no reader observes a state in which some of a mutation's writes are *)
(* visible and the others are not: while a mutation is being recorded the   *)
(* database shows either none or all of its writes.                         *)
C9_AtomicVisibility ==
  \A w \in Writers :
    pc[w] \in {"checkpoint_read", "checkpoint_write"} =>
      KV \in {cur[w].mstart, record_op(cur[w].mstart, Head(new_ops[w]))}

----------------------------------------------------------------------------
(* record_ops with a failing KV backend *)

NextFail == Next \/ \E w \in Writers : Fail(w)

InitFail == InitWith({1}, MaxFailCalls)

SpecFail == InitFail /\ [][NextFail]_vars

(* C8: if record_ops returns an error at any step, the KV state equals the *)
(* state before the call.                                                   *)
C8_FailureLeavesStateUnchanged ==
  \A w \in Writers :
    (Idle(w) /\ result[w] = "err") => KV = hist[Len(hist)].before

----------------------------------------------------------------------------
(* record_ops called from two threads *)

InitConc == InitWith(Writers, MaxConcCalls)

SpecConc == InitConc /\ [][Next]_vars

ids_of(list) == {list[i].id : i \in 1..Len(list)}

(* C10: when two record_ops calls run concurrently, the final KV state     *)
(* equals the state produced by running them one after the other in some    *)
(* order.                                                                   *)
C10_ConcurrentCallsSerialize ==
  (Quiescent /\ Len(race.lists) = 2 /\ ids_of(race.lists[1]) \cap ids_of(race.lists[2]) = {}) =>
    KV \in {record_ops(record_ops(race.base, race.lists[1]), race.lists[2]),
            record_ops(record_ops(race.base, race.lists[2]), race.lists[1])}

----------------------------------------------------------------------------
(* The animo engine: WarehouseTopology, WarehouseBalance, WarehouseStock.  *)
(* A position is the tuple of the fields of its key.  Positions of          *)
(* different topologies are kept apart (the "operation prefix" of the       *)
(* source), so the operations, the memos of WarehouseBalance and the        *)
(* checkpoints of WarehouseStock are three ordered maps; within one map an  *)
(* iterator runs over every store and goods, as the source's has no bound.  *)

AGoods == 1..NGoods

ATimes == OpDates

In(q, c) == [type |-> "In", qty |-> q, cost |-> c]

Out(q, c) == [type |-> "Out", qty |-> q, cost |-> c]

BalanceOperations == {In(q, q * UnitCost) : q \in 1..MaxQty} \cup {Out(1, UnitCost)}

(* Balance::apply *)
apply(balance, op) ==
  IF op.type = "In"
  THEN [qty |-> balance.qty + op.qty, cost |-> balance.cost + op.cost]
  ELSE [qty |-> balance.qty - op.qty, cost |-> balance.cost - op.cost]

delta_after_operation(op) == apply(Zero, op)

delta_between_operations(l, r) ==
  IF l.type = "In"
  THEN IF r.type = "In"
       THEN [qty |-> r.qty - l.qty, cost |-> r.cost - l.cost]
       ELSE [qty |-> 0 - (l.qty + r.qty), cost |-> 0 - (l.cost + r.cost)]
  ELSE IF r.type = "In"
       THEN [qty |-> l.qty + r.qty, cost |-> l.cost + r.cost]
       ELSE [qty |-> l.qty - r.qty, cost |-> l.cost + r.cost]

position_of_operation(store, goods, time, op) ==
  <<store, goods, time, IF op.type = "In" THEN U8_MAX ELSE 0>>

topology_position_of_zero(store, goods) == <<store, goods, 0, 0>>

local_topology_position_of_memo(store, goods, time) == <<store, goods, time, U8_MAX>>

next_checkpoint(time) ==
  IF time % DaysPerMonth = 0 THEN time ELSE first_day_next_month(time)

local_topology_position(store, goods, time) == <<store, time, goods>>

local_topology_position_of_aggregation(store, goods, time) ==
  local_topology_position(store, goods, next_checkpoint(time))

(* the keys an iterator started at position runs over, forwards *)
following_light(cf, position) == {k \in DOMAIN cf : LexLeq(position, k)}

memos_after(cf, position) == following_light(cf, position)

ops_following(cf, position) == following_light(cf, position)

ops_between(cf, from, till) == {k \in following_light(cf, from) : LexLeq(k, till)}

(* the first key an iterator started at position meets, backwards *)
get_closest_memo(cf, position) ==
  LET before == {k \in DOMAIN cf : LexLeq(k, position)}
  IN IF before = {} THEN <<>>
     ELSE <<CHOOSE k \in before : \A j \in before : LexLeq(j, k)>>

RECURSIVE apply_all(_, _, _)
apply_all(balance, cf, keys) ==
  IF keys = {} THEN balance
  ELSE LET k == CHOOSE x \in keys : \A y \in keys : LexLeq(x, y)
       IN apply_all(apply(balance, cf[k]), cf, keys \ {k})

(* OpsManager::write_ops for one operation: the operations and the memos   *)
(* the transaction's batch leaves                                           *)
write_ops(db, store, goods, time, op) ==
  LET position == position_of_operation(store, goods, time, op)
      delta_op == IF position \in DOMAIN db.ops
                  THEN delta_between_operations(db.ops[position], op)
                  ELSE delta_after_operation(op)
      after == memos_after(db.values, position)
  IN [db EXCEPT
        !.ops = [k \in DOMAIN db.ops \cup {position} |->
                   IF k = position THEN op ELSE db.ops[k]],
        !.values = [k \in DOMAIN db.values |->
                      IF k \in after THEN BalAdd(db.values[k], delta_op) ELSE db.values[k]]]

(* DeltaOp::delta, the operation stored at the position being the before *)
delta(before, after) ==
  IF before # <<>>
  THEN BalSub(delta_after_operation(after), delta_after_operation(before[1]))
  ELSE delta_after_operation(after)

(* OpsManager::write_aggregation_delta *)
write_aggregation_delta(stock, store, goods, time, d) ==
  LET position == local_topology_position(store, goods, time)
      checkpoint == local_topology_position_of_aggregation(store, goods, time)
      after == memos_after(stock, position)
  IN [k \in DOMAIN stock \cup {checkpoint} |->
        IF k \in DOMAIN stock
        THEN IF k \in after THEN BalAdd(stock[k], d) ELSE stock[k]
        ELSE d]

(* WarehouseBalance::get_memo: the balance returned and the memos left *)
get_memo(db, store, goods, time) ==
  LET position == local_topology_position_of_memo(store, goods, time)
      closest == get_closest_memo(db.values, position)
      balance ==
        IF closest # <<>>
        THEN IF closest[1] # position
             THEN apply_all(db.values[closest[1]], db.ops, ops_between(db.ops, closest[1], position))
             ELSE db.values[position]
        ELSE apply_all(Zero, db.ops,
                       {k \in ops_following(db.ops, topology_position_of_zero(store, goods)) :
                          LexLeq(k, position)})
  IN [balance |-> balance,
      values |-> [k \in DOMAIN db.values \cup {position} |->
                    IF k = position THEN balance ELSE db.values[k]]]

AnimoDB == [ops |-> a_ops, values |-> a_values]

(* Animo::on_mutation for a goods receive or issue: the operation topology *)
(* writes the operation, the dependant aggregation its delta, and the       *)
(* transaction commits the batch                                            *)
on_mutation(operations) ==
  /\ a_calls < MaxAnimoCalls
  /\ \E store \in Stores, goods \in AGoods, time \in ATimes, op \in operations :
       LET position == position_of_operation(store, goods, time, op)
           before == IF position \in DOMAIN a_ops THEN <<a_ops[position]>> ELSE <<>>
           written == write_ops(AnimoDB, store, goods, time, op)
       IN /\ a_ops' = written.ops
          /\ a_values' = written.values
          /\ a_stock' = write_aggregation_delta(a_stock, store, goods, time, delta(before, op))
  /\ a_read' = NoRead
  /\ a_calls' = a_calls + 1
  /\ UNCHANGED recordVars
  /\ UNCHANGED otherVars
  /\ UNCHANGED queryVars
  /\ UNCHANGED docVars

Modify == on_mutation(BalanceOperations)

(* a reader takes a snapshot and asks for the balance of a goods at a time *)
GetMemo ==
  /\ a_calls < MaxAnimoCalls
  /\ \E store \in Stores, goods \in AGoods, time \in ATimes :
       LET memo == get_memo(AnimoDB, store, goods, time)
       IN /\ a_values' = memo.values
          /\ a_read' = [store |-> store, goods |-> goods, time |-> time,
                        balance |-> memo.balance]
  /\ a_calls' = a_calls + 1
  /\ UNCHANGED <<a_ops, a_stock>>
  /\ UNCHANGED recordVars
  /\ UNCHANGED otherVars
  /\ UNCHANGED queryVars
  /\ UNCHANGED docVars

InitAnimo == InitWith({}, 0)

NextAnimo == Modify \/ GetMemo

SpecAnimo == InitAnimo /\ [][NextAnimo]_vars

(* the sum of the operations recorded for the goods up to the time *)
sum_of_operations(cf, store, goods, time) ==
  apply_all(Zero, cf, {k \in DOMAIN cf : k[1] = store /\ k[2] = goods /\ k[3] <= time})

(* C4: every balance read equals the sum of all the operations recorded up *)
(* to its date, whatever the order in which they were recorded and whatever *)
(* reads were interleaved between them.                                     *)
C4_ReadIsSumOfOperations ==
  a_read # NoRead =>
    a_read.balance = sum_of_operations(a_ops, a_read.store, a_read.goods, a_read.time)

(* the operations of the month that closes at boundary m *)
month_sum(cf, store, goods, m) ==
  apply_all(Zero, cf, {k \in DOMAIN cf : k[1] = store /\ k[2] = goods /\ next_checkpoint(k[3]) = m})

stock_at(stock, store, goods, m) ==
  IF local_topology_position(store, goods, m) \in DOMAIN stock
  THEN stock[local_topology_position(store, goods, m)] ELSE Zero

(* C2: for any tuple and any month with activity, the checkpoint stored at *)
(* the boundary that closes the month equals the checkpoint at the previous *)
(* boundary plus the sum of the deltas of the operations of the month.      *)
C2_CheckpointChain ==
  \A k \in DOMAIN a_stock :
    a_stock[k] = BalAdd(stock_at(a_stock, k[1], k[3], k[2] - DaysPerMonth),
                        month_sum(a_ops, k[1], k[3], k[2]))

----------------------------------------------------------------------------
(* record_ops of an operation with zero qty and zero cost *)

MaxZeroCalls == 3

is_zero(o) == o.qty = 0 /\ o.cost = 0

zero_inserts(cf) ==
  IF fresh_ids(cf) = {} THEN {}
  ELSE LET i == CHOOSE x \in fresh_ids(cf) : \A y \in fresh_ids(cf) : x <= y
       IN {[id |-> i, date |-> d, store |-> s, goods |-> g, batch |-> TheBatch,
            before |-> None, after |-> Receive(0, 0)] :
             d \in OpDates, s \in Stores, g \in GoodsIds}

has_zero(list) == \E i \in 1..Len(list) : list[i].after # None /\ is_zero(list[i].after)

(* a caller enters record_ops with a receive of zero qty *)
StartZero(w) ==
  /\ w \in writers
  /\ Idle(w)
  /\ calls < budget
  /\ \E m \in zero_inserts(ops) : Enter(w, <<m>>, "new")

(* built with debug assertions, put panics on a zero operation before it   *)
(* writes; built without them the assertion is absent and DataUpdate runs   *)
PutPanics(w) ==
  /\ pc[w] = "data_update"
  /\ LET m == Head(todo[w])
     IN /\ category(m) \in {"insert", "update"}
        /\ is_zero(m.after)
  /\ Leave(w, "panic")
  /\ UNCHANGED <<ops, chk, latest, writers, budget, calls, race>>
  /\ UNCHANGED animoVars
  /\ UNCHANGED otherVars
  /\ UNCHANGED queryVars
  /\ UNCHANGED docVars

NextZero == Next \/ \E w \in Writers : StartZero(w) \/ PutPanics(w)

InitZero == InitWith({1}, MaxZeroCalls)

SpecZero == InitZero /\ [][NextZero]_vars

(* C11: record_ops of a mutation whose after is Receive(0, 0) returns an   *)
(* Invalid error and writes nothing, and no stored non-dependent operation  *)
(* has a zero qty.                                                          *)
C11_ZeroQtyRejected ==
  /\ (Quiescent /\ hist # <<>> /\ has_zero(hist[Len(hist)].list)) =>
       (hist[Len(hist)].result = "invalid" /\ KV = hist[Len(hist)].before)
  /\ \A k \in DOMAIN ops : ~ops[k].op.is_dependent => ops[k].op.op.qty # 0

----------------------------------------------------------------------------
(* Operations at the same instant *)

(* the balances a replay of the operations of (store, goods) in key order   *)
(* passes through at the instant time                                       *)
replay_at(cf, store, goods, time) ==
  {apply_all(Zero, cf, {j \in DOMAIN cf : j[1] = store /\ j[2] = goods /\ LexLeq(j, k)}) :
     k \in {k \in DOMAIN cf : k[1] = store /\ k[2] = goods /\ k[3] = time}}

(* C12: for a receive and an issue recorded at the same instant on the same *)
(* tuple, in either arrival order, the key of the receive sorts before the  *)
(* key of the issue, so the replay of the ordered stream passes through no  *)
(* negative balance at that instant when the balance after it is not        *)
(* negative.                                                                *)
C12_TiedReceiveFirst ==
  \A store \in Stores : \A goods \in AGoods : \A time \in ATimes :
    LET receive == position_of_operation(store, goods, time, In(1, UnitCost))
        issue == position_of_operation(store, goods, time, Out(1, UnitCost))
    IN (receive \in DOMAIN a_ops /\ issue \in DOMAIN a_ops) =>
         /\ LexLess(receive, issue)
         /\ sum_of_operations(a_ops, store, goods, time).qty >= 0 =>
              \A b \in replay_at(a_ops, store, goods, time) : b.qty >= 0

----------------------------------------------------------------------------
(* Operations dated exactly at a month boundary *)

(* the mutation inserts an issue dated at the first instant of a month *)
issue_at_boundary(m) ==
  /\ category(m) = "insert"
  /\ m.after.type = "Issue"
  /\ first_day_current_month(m.date) = m.date

(* C13: an issue dated exactly at a month boundary updates the checkpoint  *)
(* stored at that boundary and not the checkpoint of the following month    *)
(* boundary.                                                                *)
C13_IssueAtBoundary ==
  [][\A w \in Writers :
       (pc[w] = "checkpoint_write" /\ pc'[w] # "checkpoint_write"
          /\ issue_at_boundary(Head(new_ops[w]))) =>
         LET m == Head(new_ops[w])
             at == CheckKey(m.store, m.goods, m.batch, m.date)
             next == CheckKey(m.store, m.goods, m.batch, first_day_next_month(m.date))
         IN /\ get_balance(chk', at) = BalAdd(get_balance(chk, at), to_delta(m.after))
            /\ get_balance(chk', next) = get_balance(chk, next)
            /\ (next \in DOMAIN chk') = (next \in DOMAIN chk)]_vars

----------------------------------------------------------------------------
(* Issue without a batch: the batches are resolved when it is recorded *)

MaxFifoCalls == 3
MaxIssueQty == 3

EmptyBatch == [date |-> 0, id |-> UUID_NIL]

BatchB == [date |-> DaysPerMonth + 1, id |-> 2]

Batches == {TheBatch, BatchB}

IssueMode(q, c, mode) == [type |-> "Issue", qty |-> q, cost |-> c, mode |-> mode]

Transfer(q, c, into) == [type |-> "Transfer", qty |-> q, cost |-> c, into |-> into]

(* the store transfers go into *)
OtherStore == NStores + 1

(* the Balance records of (store, goods) stored at the boundary looked up *)
get_checkpoints_for_one_goods(c, l, store, goods, date) ==
  LET current_date == first_day_current_month(date)
      latest_checkpoint_date == get_latest_checkpoint_date(l)
      actual_date ==
        IF current_date > latest_checkpoint_date THEN latest_checkpoint_date ELSE current_date
      from == <<actual_date, store, goods, 0, UUID_NIL>>
      till == <<actual_date, store, goods, U64_MAX, UUID_MAX>>
      found == {k \in DOMAIN c : LexLeq(from, k) /\ LexLess(k, till)}
  IN {[date |-> k[1], store |-> k[2], goods |-> k[3],
       batch |-> key_to_data(k).batch, number |-> c[k]] : k \in found}

(* the keys of the operations of (store, goods) dated in [from_date, till_date] *)
get_ops_for_one_goods(cf, store, goods, from_date, till_date) ==
  {k \in DOMAIN cf :
     /\ LexLeq(<<from_date, 0, store, goods, 0, UUID_NIL, UUID_NIL, 0>>, k)
     /\ LexLess(k, <<till_date, U8_MAX, store, goods, U64_MAX, UUID_MAX, UUID_MAX, 1>>)
     /\ k[3] = store
     /\ k[4] = goods
     /\ ~is_zero(cf[k].op.op)}

(* the balance of every batch of (store, goods) projected at the date of m: *)
(* the checkpoints fetched plus the operations from their date up to, not   *)
(* including, the date of m                                                 *)
projected(cf, checkpoints, m) ==
  LET checkpoint_date ==
        IF checkpoints = {} THEN 0 ELSE (CHOOSE b \in checkpoints : TRUE).date
      keys == {k \in get_ops_for_one_goods(cf, m.store, m.goods, checkpoint_date, m.date) :
                 k[1] < m.date}
  IN [b \in Batches |->
        BalAdd(IF \E c \in checkpoints : c.batch = b
               THEN (CHOOSE c \in checkpoints : c.batch = b).number ELSE Zero,
               SumDeltas(cf, {k \in keys : cf[k].op.batch = b}))]

(* LIFO *)
batch_after(a, b) == b.date < a.date \/ (a.date = b.date /\ b.id < a.id)

(* FIFO: by batch.date, then batch.id *)
batch_before(a, b) == a.date < b.date \/ (a.date = b.date /\ a.id < b.id)

(* every unit taken costs UnitCost, whatever the batch *)
flat_cost(balance, take) == take * UnitCost

(* batch.avg_unit_cost * allocated_qty, the average being cost / qty *)
child_cost(balance, take) == (balance.cost * take) \div balance.qty

(* the orders in which the map of the projected balances may hand out its  *)
(* batches: any                                                             *)
iteration_orders ==
  {order \in [1..Cardinality(Batches) -> Batches] :
     \A b \in Batches : \E i \in DOMAIN order : order[i] = b}

(* the batches left as the map hands them out *)
unsorted(batches) == batches

(* the batches by (batch.date, batch.id) *)
sort_batches(batches) == SortSeq(batches, batch_before)

(* the batches, a sequence, are taken from in turn *)
RECURSIVE allocate(_, _, _)
allocate(balances, batches, qty) ==
  IF batches = <<>> \/ qty = 0 THEN <<>>
  ELSE LET b == Head(batches)
           take == IF balances[b].qty < qty THEN balances[b].qty ELSE qty
       IN <<[batch |-> b,
             op |-> IssueMode(take, child_cost(balances[b], take), "Auto")]>>
          \o allocate(balances, Tail(batches), qty - take)

RECURSIVE allocated_qty(_)
allocated_qty(seq) == IF seq = <<>> THEN 0 ELSE Head(seq).op.qty + allocated_qty(Tail(seq))

(* the uncovered part dropped *)
no_remainder(qty) == <<>>

(* what no positive batch covers: one issue with an empty batch, Mode Manual *)
remainder(qty) ==
  IF qty = 0 THEN <<>> ELSE <<[batch |-> EmptyBatch, op |-> IssueMode(qty, 0, "Manual")]>>

(* the dependent operations an issue without a batch is decomposed into *)
resolve(cf, checkpoints, m, order) ==
  LET balances == projected(cf, checkpoints, m)
      positive == SelectSeq(order, LAMBDA b : balances[b].qty > 0)
      parts == allocate(balances, sort_batches(positive), m.after.qty)
      all == parts \o remainder(m.after.qty - allocated_qty(parts))
  IN [i \in 1..Len(all) |->
        [id |-> m.id, date |-> m.date, store |-> m.store, goods |-> m.goods,
         batch |-> all[i].batch, op |-> all[i].op, is_dependent |-> TRUE, dependant |-> <<>>]]

RECURSIVE insert_ops(_, _)
insert_ops(cf, children) ==
  IF children = <<>> THEN cf ELSE insert_ops(insert_op(cf, Head(children)), Tail(children))

RECURSIVE checkpoint_updates(_, _)
checkpoint_updates(kv, children) ==
  IF children = <<>> THEN kv
  ELSE LET c == Head(children)
       IN checkpoint_updates(checkpoint_update(kv, read_all(kv), mutation(c, None, c.op)),
                             Tail(children))

(* a transfer is written as an issue in its store and a dependent receive  *)
(* of the same qty and cost in the store it goes into                       *)
transfer_ops(m) ==
  <<[id |-> m.id, date |-> m.date, store |-> m.store, goods |-> m.goods, batch |-> m.batch,
     op |-> IssueMode(m.after.qty, m.after.cost, "Auto"),
     is_dependent |-> FALSE,
     dependant |-> <<[store |-> m.after.into, batch |-> m.batch,
                      op_order |-> op_order(Receive(m.after.qty, m.after.cost))]>>],
    [id |-> m.id, date |-> m.date, store |-> m.after.into, goods |-> m.goods,
     batch |-> m.batch, op |-> Receive(m.after.qty, m.after.cost),
     is_dependent |-> TRUE, dependant |-> <<>>]>>

(* record_ops of one mutation, the issue without a batch resolved first *)
record_resolved(kv, m, order) ==
  IF m.after.type = "Issue" /\ m.batch = EmptyBatch
  THEN LET checkpoints ==
             get_checkpoints_for_one_goods(kv.chk, kv.latest, m.store, m.goods, m.date)
           children == resolve(kv.ops, checkpoints, m, order)
       IN checkpoint_updates([kv EXCEPT !.ops = insert_ops(kv.ops, children)], children)
  ELSE IF m.after.type = "Transfer"
  THEN checkpoint_updates([kv EXCEPT !.ops = insert_ops(kv.ops, transfer_ops(m))],
                          transfer_ops(m))
  ELSE record_op(kv, m)

fifo_mutations ==
  {[id |-> calls + 1, date |-> d, store |-> s, goods |-> g, batch |-> b,
    before |-> None, after |-> Receive(q, q * UnitCost)] :
      d \in OpDates, s \in Stores, g \in GoodsIds, b \in Batches, q \in 1..MaxQty}
  \cup
  {[id |-> calls + 1, date |-> d, store |-> s, goods |-> g, batch |-> EmptyBatch,
    before |-> None, after |-> IssueMode(q, q * UnitCost, "Auto")] :
      d \in OpDates, s \in Stores, g \in GoodsIds, q \in 1..MaxIssueQty}
  \cup
  {[id |-> calls + 1, date |-> d, store |-> s, goods |-> g, batch |-> TheBatch,
    before |-> None, after |-> v] :
      d \in OpDates, s \in Stores, g \in GoodsIds,
      v \in {IssueMode(1, UnitCost, "Manual"), Transfer(1, UnitCost, OtherStore)}}

(* one record_ops call of a single caller, run to its end *)
record_one(inputs) ==
  /\ calls < budget
  /\ \E m \in inputs, order \in iteration_orders :
       LET after == record_resolved(KV, m, order)
       IN /\ ops' = after.ops
          /\ chk' = after.chk
          /\ latest' = after.latest
          /\ hist' = last_two(Append(hist, [list |-> <<m>>, kind |-> "new", before |-> KV,
                                            result |-> "ok", wf |-> TRUE]))
  /\ calls' = calls + 1
  /\ UNCHANGED <<writers, budget, pc, todo, new_ops, rd, result, cur, race>>
  /\ UNCHANGED animoVars
  /\ UNCHANGED otherVars
  /\ UNCHANGED queryVars
  /\ UNCHANGED docVars

Record == record_one(fifo_mutations)

InitFifo == InitWith({}, MaxFifoCalls)

NextFifo == Record

SpecFifo == InitFifo /\ [][NextFifo]_vars

(* Properties of the batch resolution *)

(* the call recorded last is an issue without a batch *)
issue_recorded ==
  /\ hist # <<>>
  /\ hist[Len(hist)].list[1].after.type = "Issue"
  /\ hist[Len(hist)].list[1].batch = EmptyBatch

(* the dependent operations stored for the mutation *)
children_of(cf, m) ==
  {cf[k].op : k \in {j \in DOMAIN cf : cf[j].op.id = m.id /\ cf[j].op.is_dependent}}

(* the balances of the batches projected when the last call was recorded *)
projected_before ==
  LET call == hist[Len(hist)]
      m == call.list[1]
  IN projected(call.before.ops,
               get_checkpoints_for_one_goods(call.before.chk, call.before.latest,
                                             m.store, m.goods, m.date), m)

(* C14: the qty of an issue recorded with an empty batch is allocated to   *)
(* the batches in ascending batch.date order, only to batches whose         *)
(* projected qty at the issue date is positive and never more to a batch    *)
(* than that qty; a later batch, and the empty batch, is used only when     *)
(* every earlier positive batch is fully consumed.                          *)
C14_FifoAllocation ==
  issue_recorded =>
    LET m == hist[Len(hist)].list[1]
        kids == children_of(ops, m)
    IN \A kid \in kids :
         /\ kid.batch # EmptyBatch =>
              /\ projected_before[kid.batch].qty > 0
              /\ kid.op.qty > 0
              /\ kid.op.qty <= projected_before[kid.batch].qty
         /\ \A b \in Batches :
              (projected_before[b].qty > 0
                 /\ (\/ kid.batch = EmptyBatch
                     \/ b.date < kid.batch.date
                     \/ (b.date = kid.batch.date /\ b.id < kid.batch.id))) =>
                \E first \in kids :
                  first.batch = b /\ first.op.qty = projected_before[b].qty

(* an issue was resolved to a child in every batch *)
C14_TwoBatchesUsed ==
  /\ issue_recorded
  /\ \A b \in Batches :
       \E kid \in children_of(ops, hist[Len(hist)].list[1]) : kid.batch = b

RECURSIVE total_qty(_)
total_qty(kids) ==
  IF kids = {} THEN 0
  ELSE LET kid == CHOOSE x \in kids : TRUE
       IN kid.op.qty + total_qty(kids \ {kid})

(* C15: for every issue recorded with an empty batch the qty of its        *)
(* dependent children sums to the requested qty; the part not covered by    *)
(* positive batches, all of it when no positive batch exists, is written as *)
(* exactly one dependent Issue with an empty batch and Mode Manual.         *)
C15_QtyConservation ==
  issue_recorded =>
    LET m == hist[Len(hist)].list[1]
        kids == children_of(ops, m)
        manual == {kid \in kids : kid.batch = EmptyBatch}
        positive == {b \in Batches : projected_before[b].qty > 0}
        stock == total_qty({[op |-> projected_before[b], batch |-> b] : b \in positive})
    IN /\ total_qty(kids) = m.after.qty
       /\ \A kid \in kids : kid.is_dependent /\ kid.op.type = "Issue"
       /\ Cardinality(manual) = (IF m.after.qty > stock THEN 1 ELSE 0)
       /\ \A kid \in manual :
            kid.op.mode = "Manual" /\ kid.op.qty = m.after.qty - stock
       /\ positive = {} => kids = manual

(* an issue larger than the stock: one child in a batch, the rest Manual *)
C15_PartCoveredRestManual ==
  /\ issue_recorded
  /\ \E kid \in children_of(ops, hist[Len(hist)].list[1]) : kid.batch = TheBatch
  /\ \E kid \in children_of(ops, hist[Len(hist)].list[1]) : kid.batch = EmptyBatch

----------------------------------------------------------------------------
(* Reports *)

(* the Balance records of the store stored at the boundary looked up *)
get_checkpoints_for_one_storage_before_date(c, l, store, date) ==
  LET current_date == first_day_current_month(date)
      latest_checkpoint_date == get_latest_checkpoint_date(l)
      ts == IF current_date > latest_checkpoint_date
            THEN latest_checkpoint_date ELSE current_date
      found == {k \in DOMAIN c : /\ LexLeq(<<ts, store, UUID_NIL, 0, UUID_NIL>>, k)
                                 /\ LexLess(k, <<ts, store, UUID_MAX, U64_MAX, UUID_MAX>>)}
  IN {[date |-> k[1], store |-> k[2], goods |-> k[3],
       batch |-> key_to_data(k).batch, number |-> c[k]] : k \in found}

(* the values stored under the keys, in the order of the keys *)
RECURSIVE ops_at(_, _)
ops_at(cf, keys) ==
  IF keys = <<>> THEN <<>> ELSE <<cf[Head(keys)].op>> \o ops_at(cf, Tail(keys))

(* a scan of the range that keeps the operations of every storage *)
get_ops_for_any_storage(cf, storage, from_date, till_date) ==
  ops_at(cf, Ascending({k \in DOMAIN cf :
                          /\ LexLeq(OpsFrom(from_date), k)
                          /\ LexLess(k, OpsTill(till_date))}))

(* the operations of the storage dated in [from_date, till_date], in key order *)
get_ops_for_storage(cf, storage, from_date, till_date) ==
  LET inRange == {k \in DOMAIN cf :
                    /\ LexLeq(OpsFrom(from_date), k)
                    /\ LexLess(k, OpsTill(till_date))
                    /\ k[3] = storage}
  IN ops_at(cf, Ascending(inRange))

RECURSIVE sum_deltas(_)
sum_deltas(seq) ==
  IF seq = <<>> THEN Zero ELSE BalAdd(to_delta(Head(seq).op), sum_deltas(Tail(seq)))

RECURSIVE sum_cost(_, _, _)
sum_cost(rows, tuples, field) ==
  IF tuples = {} THEN 0
  ELSE LET t == CHOOSE x \in tuples : TRUE
       IN rows[t][field].cost + sum_cost(rows, tuples \ {t}, field)

(* one row of the Aggregation Engine: the open balance (the checkpoint and *)
(* the operations dated before from_date), the receive and issue deltas    *)
(* of the operations dated from from_date on, and the close balance        *)
row(balances, seq, from_date, t) ==
  LET mine(o) == TupleOf(o) = t
      own == SelectSeq(seq, mine)
      before(o) == o.date < from_date
      received(o) == o.date >= from_date /\ o.op.type = "Receive"
      issued(o) == o.date >= from_date /\ o.op.type = "Issue"
      opening == IF \E b \in balances : TupleOf(b) = t
                 THEN (CHOOSE b \in balances : TupleOf(b) = t).number ELSE Zero
      open == BalAdd(opening, sum_deltas(SelectSeq(own, before)))
      receive == sum_deltas(SelectSeq(own, received))
      issue == sum_deltas(SelectSeq(own, issued))
  IN [open_balance |-> open, receive |-> receive, issue |-> issue,
      close_balance |-> BalAdd(open, BalAdd(receive, issue))]

RECURSIVE rows_of(_, _, _, _)
rows_of(balances, seq, from_date, tuples) ==
  IF tuples = {} THEN <<>>
  ELSE LET t == CHOOSE x \in tuples : TRUE
       IN (t :> row(balances, seq, from_date, t))
            @@ rows_of(balances, seq, from_date, tuples \ {t})

(* the Aggregation Engine: the rows per (store, goods, batch) and the      *)
(* totals of their cost fields                                              *)
new_get_aggregations(balances, seq, from_date) ==
  LET tuples == {TupleOf(b) : b \in balances} \cup {TupleOf(seq[i]) : i \in 1..Len(seq)}
      rows == rows_of(balances, seq, from_date, tuples)
  IN [total |-> [f \in {"open_balance", "receive", "issue", "close_balance"} |->
                   sum_cost(rows, tuples, f)],
      rows |-> rows]

(* a report whose scan stops before till_date *)
get_report_before_till(kv, storage, from_date, till_date) ==
  LET balances ==
        get_checkpoints_for_one_storage_before_date(kv.chk, kv.latest, storage, from_date)
      seq == get_ops_for_storage(kv.ops, storage, first_day_current_month(from_date),
                                 till_date - 1)
  IN [from_date |-> from_date, till_date |-> till_date,
      items |-> new_get_aggregations(balances, seq, from_date)]

get_report_for_storage(kv, storage, from_date, till_date) ==
  LET balances ==
        get_checkpoints_for_one_storage_before_date(kv.chk, kv.latest, storage, from_date)
      seq == get_ops_for_storage(kv.ops, storage, first_day_current_month(from_date), till_date)
  IN [from_date |-> from_date, till_date |-> till_date,
      items |-> new_get_aggregations(balances, seq, from_date)]

(* the row of a tuple in a report, an absent row reading as zeros *)
row_of(report, t) ==
  IF t \in DOMAIN report.items.rows THEN report.items.rows[t]
  ELSE [open_balance |-> Zero, receive |-> Zero, issue |-> Zero, close_balance |-> Zero]

ReportStores == Stores \cup {OtherStore}

ReportTuples ==
  {[store |-> s, goods |-> g, batch |-> b] :
     s \in ReportStores, g \in GoodsIds, b \in Batches \cup {EmptyBatch}}

Periods == {<<from, till>> \in QueryDates \X QueryDates : from <= till}

----------------------------------------------------------------------------
(* Properties of transfers and reports *)

(* the call recorded last is a transfer *)
transfer_recorded == hist # <<>> /\ hist[Len(hist)].list[1].after.type = "Transfer"

(* C16: recording a Transfer of qty q and cost c of a batch from store A   *)
(* to store B on date d decreases the balance of (A, goods, batch) by       *)
(* (q, c) and increases the balance of (B, goods, batch) by (q, c) for      *)
(* every date >= d, and the reports of a period that holds d show it as     *)
(* issue (-q, -c) for A and receive (q, c) for B.                           *)
C16_TransferPreserves ==
  transfer_recorded =>
    LET call == hist[Len(hist)]
        m == call.list[1]
        moved == [qty |-> m.after.qty, cost |-> m.after.cost]
        out == [store |-> m.store, goods |-> m.goods, batch |-> m.batch]
        into == [store |-> m.after.into, goods |-> m.goods, batch |-> m.batch]
    IN /\ \A date \in QueryDates :
            date >= m.date =>
              /\ balance_on(KV, out, date) = BalSub(balance_on(call.before, out, date), moved)
              /\ balance_on(KV, into, date) = BalAdd(balance_on(call.before, into, date), moved)
       /\ \A p \in Periods :
            (p[1] <= m.date /\ m.date <= p[2]) =>
              /\ row_of(get_report_for_storage(KV, m.store, p[1], p[2]), out).issue
                   = BalSub(row_of(get_report_for_storage(call.before, m.store, p[1], p[2]),
                                   out).issue, moved)
              /\ row_of(get_report_for_storage(KV, m.after.into, p[1], p[2]), into).receive
                   = BalAdd(row_of(get_report_for_storage(call.before, m.after.into,
                                                          p[1], p[2]), into).receive, moved)

(* the issue deltas of the tuple stored with a date in [from_date, till_date] *)
issued_in(cf, t, from_date, till_date) ==
  SumDeltas(cf, {k \in DOMAIN cf : /\ TupleOf(cf[k].op) = t
                                    /\ cf[k].op.op.type = "Issue"
                                    /\ from_date <= k[1]
                                    /\ k[1] <= till_date})

(* C17: in every report each row satisfies close_balance = open_balance +  *)
(* receive + issue, where issue is the non-positive sum of the issue deltas *)
(* in [from, till], and the total row of the store equals the sum of the    *)
(* cost fields of its rows.                                                 *)
C17_ReportRows ==
  \A s \in ReportStores : \A p \in Periods :
    LET report == get_report_for_storage(KV, s, p[1], p[2])
        rows == report.items.rows
    IN /\ \A t \in DOMAIN rows :
            LET r == rows[t]
            IN /\ r.close_balance = BalAdd(r.open_balance, BalAdd(r.receive, r.issue))
               /\ r.issue = issued_in(ops, t, p[1], p[2])
               /\ r.issue.qty <= 0
       /\ \A f \in {"open_balance", "receive", "issue", "close_balance"} :
            report.items.total[f] = sum_cost(rows, DOMAIN rows, f)

(* a Manual issue against an empty balance shows a negative close *)
C17_NegativeClose ==
  \E s \in Stores : \E p \in Periods :
    LET rows == get_report_for_storage(KV, s, p[1], p[2]).items.rows
    IN \E t \in DOMAIN rows :
         /\ rows[t].open_balance = Zero
         /\ rows[t].receive = Zero
         /\ rows[t].issue = [qty |-> -1, cost |-> 0 - UnitCost]
         /\ rows[t].close_balance = rows[t].issue


(* the merge of the reports of two adjoining periods: the open balance of *)
(* the first, the summed receive and issue deltas, the close of the second *)
merge(first, second, t) ==
  [open_balance |-> row_of(first, t).open_balance,
   receive |-> BalAdd(row_of(first, t).receive, row_of(second, t).receive),
   issue |-> BalAdd(row_of(first, t).issue, row_of(second, t).issue),
   close_balance |-> row_of(second, t).close_balance]

(* C18: report splitting: for every period [from, till], every stored op   *)
(* set and every split point t in that period, report(from, till) equals   *)
(* the merge of report(from, t) and report(t, till): same open, same       *)
(* summed receive and issue deltas, same close in every row.               *)
C18_ReportSplitting ==
  \A s \in ReportStores : \A p \in Periods : \A t \in p[1]..p[2] :
    LET whole == get_report_for_storage(KV, s, p[1], p[2])
        first == get_report_for_storage(KV, s, p[1], t)
        second == get_report_for_storage(KV, s, t, p[2])
    IN \A x \in DOMAIN whole.items.rows \cup DOMAIN first.items.rows
                  \cup DOMAIN second.items.rows :
         row_of(whole, x) = merge(first, second, x)


(* the deltas of the tuple's stored operations dated before the date *)
sum_before(cf, t, date) ==
  SumDeltas(cf, {k \in DOMAIN cf : TupleOf(cf[k].op) = t /\ k[1] < date})

(* the receive and issue deltas of the tuple dated in [from_date, till_date] *)
received_in(cf, t, from_date, till_date) ==
  SumDeltas(cf, {k \in DOMAIN cf : /\ TupleOf(cf[k].op) = t
                                    /\ cf[k].op.op.type = "Receive"
                                    /\ from_date <= k[1]
                                    /\ k[1] <= till_date})

(* C19: in the report of a store over [from, till] in any reachable state  *)
(* the open balance of every row equals the sum of the deltas of all       *)
(* stored ops on that tuple dated before from, and no op dated before from *)
(* is counted in receive or issue.                                         *)
C19_OpenBalance ==
  \A s \in ReportStores : \A p \in Periods :
    LET report == get_report_for_storage(KV, s, p[1], p[2])
    IN \A t \in ReportTuples :
         t.store = s =>
           LET r == row_of(report, t)
           IN /\ r.open_balance = sum_before(ops, t, p[1])
              /\ r.receive = received_in(ops, t, p[1], p[2])
              /\ r.issue = issued_in(ops, t, p[1], p[2])


(* C20: latest_checkpoint_date monotonically advances: over any sequence   *)
(* of operations, including recording past-dated mutations, the stored     *)
(* latest checkpoint date never becomes earlier than a value it held       *)
(* before.                                                                 *)
C20_LatestNeverRewound ==
  [][get_latest_checkpoint_date(latest') >= get_latest_checkpoint_date(latest)]_vars


-----------------------------------------------------------------------------
(* Properties of the range iterators and of the lookups *)

(* the stored operations of the store dated in [from_date, till_date] *)
stored_in(cf, s, from_date, till_date) ==
  {cf[k].op : k \in {j \in DOMAIN cf : /\ cf[j].op.store = s
                                        /\ from_date <= cf[j].op.date
                                        /\ cf[j].op.date <= till_date}}

(* C21: the store range iterator returns exactly the stored operations    *)
(* whose store is the requested store and whose timestamp lies in         *)
(* [from, till], none of another store and none missing, each equal to    *)
(* to_op() of the mutation that created it, in ascending key order.       *)
C21_StoreRangeIterator ==
  /\ \A s \in ReportStores : \A p \in Periods :
       LET res == get_ops_for_storage(ops, s, p[1], p[2])
       IN /\ {res[i] : i \in 1..Len(res)} = stored_in(ops, s, p[1], p[2])
          /\ \A i \in 1..Len(res) : \A j \in 1..Len(res) :
               i < j => LexLess(OpKey(res[i]), OpKey(res[j]))
  /\ (hist # <<>> /\ hist[Len(hist)].list[1].batch # EmptyBatch
        /\ hist[Len(hist)].list[1].after.type # "Transfer") =>
       LET m == hist[Len(hist)].list[1]
           res == get_ops_for_storage(ops, m.store, m.date, m.date)
       IN \E i \in 1..Len(res) : res[i] = to_op(m, m.after)

(* a scan of one store that returns some operations while another store   *)
(* has an operation in the range and the store has one outside of it      *)
C21_OtherStoreAndOutOfRange ==
  \E s \in ReportStores : \E p \in Periods :
    /\ Len(get_ops_for_storage(ops, s, p[1], p[2])) >= 2
    /\ \E k \in DOMAIN ops : ops[k].op.store # s /\ p[1] <= k[1] /\ k[1] <= p[2]
    /\ \E k \in DOMAIN ops : ops[k].op.store = s /\ (k[1] < p[1] \/ k[1] > p[2])


-----------------------------------------------------------------------------
(* Queries of Db over stored values that may fail to decode *)

MaxQueryCalls == 2

Ok(v) == [ok |-> TRUE, error |-> "", value |-> v]

Err(e) == [ok |-> FALSE, error |-> e, value |-> <<>>]

(* serde_json::from_slice / from_bytes of a stored value *)
decodes(b, cf, k) == <<cf, k>> \notin b

(* CheckDateStoreBatch::get_checkpoints_for_all: every value of the scanned *)
(* range is decoded, the first failure is returned with `?`                 *)
try_get_checkpoints_for_all(c, l, b, date) ==
  LET res == get_checkpoints_for_all(c, l, date)
  IN IF \E k \in DOMAIN c : k[1] = res.date /\ ~decodes(b, "chk", k)
     THEN Err("Corrupt") ELSE Ok(res)

try_get_checkpoints_for_one_goods(c, l, b, store, goods, date) ==
  LET res == get_checkpoints_for_one_goods(c, l, store, goods, date)
  IN IF \E r \in res : ~decodes(b, "chk", CheckKey(r.store, r.goods, r.batch, r.date))
     THEN Err("Corrupt") ELSE Ok(res)

try_get_checkpoints_for_one_storage_before_date(c, l, b, store, date) ==
  LET res == get_checkpoints_for_one_storage_before_date(c, l, store, date)
  IN IF \E r \in res : ~decodes(b, "chk", CheckKey(r.store, r.goods, r.batch, r.date))
     THEN Err("Corrupt") ELSE Ok(res)

(* the range scans of the ordered topology decode every value they pass *)
try_get_balances_for_all(cf, b, from_date, till_date, checkpoints) ==
  IF \E k \in DOMAIN cf : /\ LexLeq(OpsFrom(from_date), k)
                          /\ LexLess(k, OpsTill(till_date))
                          /\ ~decodes(b, "ops", k)
  THEN Err("Corrupt")
  ELSE Ok(get_balances_for_all(cf, from_date, till_date, checkpoints))

try_get_ops_for_storage(cf, b, storage, from_date, till_date) ==
  IF \E k \in DOMAIN cf : /\ LexLeq(OpsFrom(from_date), k)
                          /\ LexLess(k, OpsTill(till_date))
                          /\ k[3] = storage
                          /\ ~decodes(b, "ops", k)
  THEN Err("Corrupt")
  ELSE Ok(get_ops_for_storage(cf, storage, from_date, till_date))

(* DateTypeStoreBatchId::get_report_for_storage, both reads ending with `?` *)
try_get_report_for_storage(kv, b, storage, from_date, till_date) ==
  LET balances ==
        try_get_checkpoints_for_one_storage_before_date(kv.chk, kv.latest, b, storage,
                                                        from_date)
      seq == try_get_ops_for_storage(kv.ops, b, storage,
                                     first_day_current_month(from_date), till_date)
  IN IF ~balances.ok THEN balances
     ELSE IF ~seq.ok THEN seq
     ELSE Ok(get_report_for_storage(kv, storage, from_date, till_date))

(* Db::get_checkpoints_for_goods: an error other than "Not supported" is returned *)
Db_get_checkpoints_for_goods(kv, b, store, goods, date) ==
  LET res == try_get_checkpoints_for_one_goods(kv.chk, kv.latest, b, store, goods, date)
  IN IF res.ok THEN res
     ELSE IF res.error = "Not supported" THEN Err("can't get checkpoint before date")
     ELSE res

(* Db::get_report_for_storage: the error of the topology is ignored *)
Db_get_report_for_storage(kv, b, storage, from_date, till_date) ==
  LET res == try_get_report_for_storage(kv, b, storage, from_date, till_date)
  IN IF res.ok THEN res ELSE Err("fn get_report not implemented")

(* Db::get_balance_for_all: a failed checkpoint topology is printed and     *)
(* passed over, and with none left the balances are replayed from the epoch *)
(* over no checkpoints; the error of the ordered topology is ignored        *)
Db_get_balance_for_all(kv, b, date) ==
  LET cp == try_get_checkpoints_for_all(kv.chk, kv.latest, b, date)
      start == IF cp.ok THEN cp.value ELSE [date |-> 0, balances |-> <<>>]
      res == try_get_balances_for_all(kv.ops, b, start.date, date, start.balances)
  IN IF res.ok THEN res ELSE Err("fn get_balance not implemented")

(* the error of the first topology call of the query that fails, if any *)
topology_error(kv, b, call, args) ==
  IF call = "get_checkpoints_for_goods"
  THEN try_get_checkpoints_for_one_goods(kv.chk, kv.latest, b, args[1], args[2], args[3])
  ELSE IF call = "get_report_for_storage"
  THEN try_get_report_for_storage(kv, b, args[1], args[2], args[3])
  ELSE LET cp == try_get_checkpoints_for_all(kv.chk, kv.latest, b, args[1])
       IN IF ~cp.ok THEN cp
          ELSE try_get_balances_for_all(kv.ops, b, cp.value.date, args[1], cp.value.balances)

(* the bytes of one stored value are damaged on disk *)
Damage ==
  /\ bad = {}
  /\ \E k \in DOMAIN ops \cup DOMAIN chk :
       bad' = {<<IF k \in DOMAIN ops THEN "ops" ELSE "chk", k>>}
  /\ UNCHANGED <<answer>>
  /\ UNCHANGED recordVars
  /\ UNCHANGED animoVars
  /\ UNCHANGED otherVars
  /\ UNCHANGED docVars

Answer(call, args, res) ==
  /\ answer' = [call |-> call, args |-> args, ok |-> res.ok, error |-> res.error,
                value |-> res.value]
  /\ UNCHANGED <<bad>>
  /\ UNCHANGED recordVars
  /\ UNCHANGED animoVars
  /\ UNCHANGED otherVars
  /\ UNCHANGED docVars

GetCheckpointsForGoods ==
  \E s \in Stores : \E g \in GoodsIds : \E d \in QueryDates :
    Answer("get_checkpoints_for_goods", <<s, g, d>>,
           Db_get_checkpoints_for_goods(KV, bad, s, g, d))

(* the calendar months the reports are asked for *)
MonthPeriods ==
  {<<m * DaysPerMonth, (m + 1) * DaysPerMonth - 1>> : m \in 1..(MaxMonth + 1)}

GetReportForStorage ==
  \E s \in Stores : \E p \in MonthPeriods :
    Answer("get_report_for_storage", <<s, p[1], p[2]>>,
           Db_get_report_for_storage(KV, bad, s, p[1], p[2]))

GetBalanceForAll ==
  \E d \in QueryDates :
    Answer("get_balance_for_all", <<d>>, Db_get_balance_for_all(KV, bad, d))

InitQuery == InitWith({}, MaxQueryCalls)

(* the queries do not change the database, so they are made after the *)
(* record_ops calls and after the damage                              *)
RecordFirst == bad = {} /\ answer = NoAnswer /\ Record

DamageFirst == answer = NoAnswer /\ Damage

NextQuery ==
  \/ RecordFirst
  \/ DamageFirst
  \/ GetCheckpointsForGoods
  \/ GetReportForStorage
  \/ GetBalanceForAll

SpecQuery == InitQuery /\ [][NextQuery]_vars

(* C22: Corrupt and Invalid errors are always surfaced: when a topology    *)
(* fails with such an error during a balance or report query, the query     *)
(* returns that error to the caller; it never returns a result computed     *)
(* while skipping the record or from an empty checkpoint set, and never     *)
(* replaces the error by a different one.                                   *)
C22_ErrorsSurfaced ==
  [][answer' # answer =>
       LET failed == topology_error(KV, bad, answer'.call, answer'.args)
       IN ~failed.ok => (~answer'.ok /\ answer'.error = failed.error)]_vars


(* the operations a caller may look up or delete *)
lookups ==
  {to_op([id |-> i, date |-> d, store |-> s, goods |-> g, batch |-> TheBatch], v) :
     i \in OpIds, d \in OpDates, s \in Stores, g \in GoodsIds, v \in OpVals}

(* the mutation deletes an operation that the ordered topology does not hold *)
deletes_missing(cf, m) ==
  /\ m.before # None
  /\ m.after = None
  /\ OpKey(to_op(m, m.before)) \notin DOMAIN cf

(* C23: NotFound handling: get of an operation that is not stored returns *)
(* an absent result (None) without error, whereas deleting an operation   *)
(* that is not stored returns an error and leaves the KV state unchanged. *)
C23_NotFound ==
  /\ \A o \in lookups : OpKey(o) \notin DOMAIN ops => get(ops, o) = <<>>
  /\ (Quiescent /\ hist # <<>>
        /\ deletes_missing(hist[Len(hist)].before.ops, hist[Len(hist)].list[1])) =>
       /\ hist[Len(hist)].result # "ok"
       /\ KV = hist[Len(hist)].before


-----------------------------------------------------------------------------
(* Document Log: the writes of one document, SMemories create / update *)

MaxTime == 5

MaxWrites == 3

NBodies == 2

Chunks == 2

Bodies == 1..NBodies

(* the time in the format YYYY-MM-DDTHH:MM:SSZ, whole seconds *)
time_to_string(time) == time \div TicksPerSecond

(* format!("{time_str}.json") *)
file_name(time) == time_to_string(time)

(* OpenOptions create(true).write(true).truncate(true).open(path) *)
open_truncate(files, name, body) ==
  [n \in DOMAIN files \cup {name} |->
     IF n = name THEN [body |-> body, written |-> 0] ELSE files[n]]

(* one write of file.write_all(data.as_bytes()) *)
write_all(files, name) == [files EXCEPT ![name].written = @ + 1]

(* a writer that goes on before all the bytes are in the file *)
saved_early(content) == TRUE

(* write_all has returned Ok: all the bytes are in the file *)
saved(content) == content.written = Chunks

(* load(path): read_to_string through the link and parse the JSON *)
load(files, link) ==
  IF link = NoLink THEN Err("IOError")
  ELSE IF link \notin DOMAIN files THEN Err("IOError")
  ELSE IF files[link].written # Chunks THEN Err("IOError")
  ELSE Ok(files[link].body)

(* SMemories::get(id).json() *)
get_document == load(d_files, d_link)

Logged(res) ==
  d_log' = Append(d_log, [time |-> d_req.time, body |-> d_req.body, result |-> res])

(* create or update enters save_data with the time of the clock; loading *)
(* the previous version changes nothing                                  *)
DocStart ==
  /\ d_pc = "idle"
  /\ Len(d_log) < MaxWrites
  /\ \E b \in Bodies : d_req' = [time |-> d_clock, body |-> b]
  /\ d_pc' = "save"
  /\ UNCHANGED <<d_files, d_link, d_clock, d_log>>
  /\ UNCHANGED recordVars
  /\ UNCHANGED animoVars
  /\ UNCHANGED otherVars
  /\ UNCHANGED queryVars

(* save: the version file is created, or truncated when it is there *)
DocOpen ==
  /\ d_pc = "save"
  /\ d_files' = open_truncate(d_files, file_name(d_req.time), d_req.body)
  /\ d_pc' = "write"
  /\ UNCHANGED <<d_link, d_req, d_clock, d_log>>
  /\ UNCHANGED recordVars
  /\ UNCHANGED animoVars
  /\ UNCHANGED otherVars
  /\ UNCHANGED queryVars

(* save: the bytes are written *)
DocWrite ==
  /\ d_pc = "write"
  /\ d_files' = write_all(d_files, file_name(d_req.time))
  /\ d_pc' = IF saved(d_files'[file_name(d_req.time)]) THEN "remove" ELSE "write"
  /\ UNCHANGED <<d_link, d_req, d_clock, d_log>>
  /\ UNCHANGED recordVars
  /\ UNCHANGED animoVars
  /\ UNCHANGED otherVars
  /\ UNCHANGED queryVars

(* symlink::remove_symlink_file(&path_latest), its result dropped *)
DocRemoveSymlink ==
  /\ d_pc = "remove"
  /\ d_link' = NoLink
  /\ d_pc' = "symlink"
  /\ UNCHANGED <<d_files, d_req, d_clock, d_log>>
  /\ UNCHANGED recordVars
  /\ UNCHANGED animoVars
  /\ UNCHANGED otherVars
  /\ UNCHANGED queryVars

(* symlink::symlink_file(&file_name, &path_latest)?; Ok(data) *)
DocSymlink ==
  /\ d_pc = "symlink"
  /\ d_link = NoLink
  /\ d_link' = file_name(d_req.time)
  /\ Logged("ok")
  /\ d_pc' = "idle"
  /\ d_req' = NoWrite
  /\ UNCHANGED <<d_files, d_clock>>
  /\ UNCHANGED recordVars
  /\ UNCHANGED animoVars
  /\ UNCHANGED otherVars
  /\ UNCHANGED queryVars

(* the write ends where it is: a file-system call returns Err and `?`     *)
(* leaves save_data, or the process stops                                 *)
DocFail ==
  /\ d_pc # "idle"
  /\ Logged("failed")
  /\ d_pc' = "idle"
  /\ d_req' = NoWrite
  /\ UNCHANGED <<d_files, d_link, d_clock>>
  /\ UNCHANGED recordVars
  /\ UNCHANGED animoVars
  /\ UNCHANGED otherVars
  /\ UNCHANGED queryVars

(* the clock goes on *)
Tick ==
  /\ d_pc = "idle"
  /\ d_clock < MaxTime
  /\ d_clock' = d_clock + 1
  /\ UNCHANGED <<d_files, d_link, d_pc, d_req, d_log>>
  /\ UNCHANGED recordVars
  /\ UNCHANGED animoVars
  /\ UNCHANGED otherVars
  /\ UNCHANGED queryVars

InitDoc == InitWith({}, 0)

NextDoc ==
  \/ DocStart
  \/ DocOpen
  \/ DocWrite
  \/ DocRemoveSymlink
  \/ DocSymlink
  \/ DocFail
  \/ Tick

SpecDoc == InitDoc /\ [][NextDoc]_vars

(* the writes that returned Ok, in the order they were made *)
succeeded == SelectSeq(d_log, LAMBDA w : w.result = "ok")

(* C24: document write crash safety: at every intermediate point of a      *)
(* document write, and after a crash at that point, latest.json resolves   *)
(* to a complete document version: the previous latest until the symlink   *)
(* is repointed, the new file afterwards; it is never missing, dangling or *)
(* pointing at a partially written file.                                   *)
C24_LatestAlwaysResolves ==
  succeeded # <<>> => get_document = Ok(succeeded[Len(succeeded)].body)

(* C25: after any sequence of successful writes to a document, reading the *)
(* document (resolving latest.json) returns the body stored by the most    *)
(* recent write.                                                           *)
C25_ReadReturnsLastWrite ==
  (d_pc = "idle" /\ d_log # <<>> /\ d_log[Len(d_log)].result = "ok") =>
    get_document = Ok(d_log[Len(d_log)].body)

(* three writes have succeeded, the last with another body than the one   *)
(* before it, and the document reads as the last                           *)
C25_ThreeWritesRead ==
  /\ d_pc = "idle"
  /\ Len(succeeded) = MaxWrites
  /\ d_log[MaxWrites].body # d_log[MaxWrites - 1].body
  /\ get_document = Ok(d_log[MaxWrites].body)

(* C26: document history is append-only: every write of a document         *)
(* produces a new timestamped file, and no previously written version file *)
(* is ever overwritten, truncated or deleted, so after n writes the        *)
(* document directory holds n version files with the bodies written.       *)
C26_HistoryAppendOnly ==
  (d_pc = "idle" /\ succeeded = d_log) =>
    /\ Cardinality(DOMAIN d_files) = Len(d_log)
    /\ \A i \in 1..Len(d_log) :
         /\ file_name(d_log[i].time) \in DOMAIN d_files
         /\ d_files[file_name(d_log[i].time)] = [body |-> d_log[i].body, written |-> Chunks]


----------------------------------------------------------------------------
(* Properties of the propagation of a delta in the animo engine.            *)

(* the step is a mutation of the operation written at (store, goods, time) *)
mutation_of(store, goods, time) ==
  /\ a_calls' # a_calls
  /\ a_read' = NoRead
  /\ \E op \in BalanceOperations :
       LET position == position_of_operation(store, goods, time, op)
       IN /\ position \in DOMAIN a_ops'
          /\ a_ops'[position] = op
          /\ \A k \in DOMAIN a_ops' \ {position} : k \in DOMAIN a_ops /\ a_ops'[k] = a_ops[k]

(* the memos and the checkpoints the step has changed *)
memos_changed == {k \in DOMAIN a_values : a_values'[k] # a_values[k]}

checkpoints_changed == {k \in DOMAIN a_stock : a_stock'[k] # a_stock[k]}

(* C27: propagating the delta of an operation changes only memos of the     *)
(* operation's own store and goods that lie after the operation and up to   *)
(* the next checkpoint boundary, and only checkpoints of that store and     *)
(* goods; every memo and checkpoint of another store or goods is left as    *)
(* it was.                                                                  *)
C27_PropagationFrame ==
  [][(a_calls' # a_calls /\ a_read' = NoRead) =>
       \E store \in Stores, goods \in AGoods, time \in ATimes :
         /\ mutation_of(store, goods, time)
         /\ \A k \in memos_changed :
              /\ k[1] = store /\ k[2] = goods
              /\ time <= k[3] /\ k[3] <= next_checkpoint(time)
         /\ \A k \in checkpoints_changed : k[1] = store /\ k[3] = goods]_vars


(* the checkpoints of the store and goods dated before boundary m *)
earlier_checkpoints(stock, store, goods, m) ==
  {k \in DOMAIN stock : k[1] = store /\ k[3] = goods /\ k[2] < m}

(* the full balance at boundary m: the most recent earlier checkpoint and   *)
(* the operations of the months it does not cover, up to the one m closes   *)
full_balance_at(stock, cf, store, goods, m) ==
  LET earlier == earlier_checkpoints(stock, store, goods, m)
      base == IF earlier = {} THEN [date |-> 0, balance |-> Zero]
              ELSE LET k == CHOOSE x \in earlier : \A y \in earlier : y[2] <= x[2]
                   IN [date |-> k[2], balance |-> stock[k]]
  IN apply_all(base.balance, cf,
               {k \in DOMAIN cf : /\ k[1] = store /\ k[2] = goods
                                  /\ base.date < next_checkpoint(k[3])
                                  /\ next_checkpoint(k[3]) <= m})

(* C28: when an operation is recorded for a store and goods that have no    *)
(* checkpoint at or after the boundary m that closes the operation's month, *)
(* the checkpoint created at m holds the full balance at m: the most recent *)
(* earlier checkpoint plus every operation recorded since, the new one      *)
(* included, and not the delta of the new operation alone.                  *)
C28_CreatedCheckpointIsFull ==
  [][\A k \in DOMAIN a_stock' \ DOMAIN a_stock :
       {j \in DOMAIN a_stock : j[1] = k[1] /\ j[3] = k[3] /\ j[2] >= k[2]} = {} =>
         a_stock'[k] = full_balance_at(a_stock', a_ops', k[1], k[3], k[2])]_vars


(* Revisions of stored operations: a receive or an issue is replaced by one *)
(* of another quantity and cost.                                            *)
Revisions == {In(q, q * UnitCost) : q \in 1..MaxQty} \cup {Out(q, q * UnitCost) : q \in 1..MaxQty}

Revise == on_mutation(Revisions)

NextRevise == Revise \/ GetMemo

SpecRevise == InitAnimo /\ [][NextRevise]_vars

(* the operations the step has replaced by another *)
revised == {p \in DOMAIN a_ops : a_ops'[p] # a_ops[p]}

(* the balance with cur taken out and new put in *)
delete_insert(balance, current, new) ==
  BalAdd(BalSub(balance, delta_after_operation(current)), delta_after_operation(new))

(* C29: updating an operation is deleting it and inserting the new one:    *)
(* when a stored operation cur is replaced by new, every memo of its store  *)
(* and goods after it and every checkpoint of its store and goods from its  *)
(* boundary on, balances that include cur, become the balance with cur      *)
(* taken out and new put in, in quantity and in cost.                       *)
C29_UpdateIsDeleteInsert ==
  [][\A p \in revised :
       /\ \A k \in DOMAIN a_values :
            (k[1] = p[1] /\ k[2] = p[2] /\ LexLeq(p, k)) =>
              a_values'[k] = delete_insert(a_values[k], a_ops[p], a_ops'[p])
       /\ \A k \in DOMAIN a_stock :
            (k[1] = p[1] /\ k[3] = p[2] /\ k[2] >= next_checkpoint(p[3])) =>
              a_stock'[k] = delete_insert(a_stock[k], a_ops[p], a_ops'[p])]_vars


----------------------------------------------------------------------------
(* Properties of the checkpoint scans.                                      *)

(* the date a scan for date looks at *)
scan_date(l, date) ==
  LET current == first_day_current_month(date)
      persisted == get_latest_checkpoint_date(l)
  IN IF current > persisted THEN persisted ELSE current

(* the checkpoints of the tuple dated at or before date *)
checkpoints_until(c, t, date) ==
  {k \in DOMAIN c : TupleOf(key_to_data(k)) = t /\ k[1] <= date}

(* the tuples that have a checkpoint *)
checkpointed(c) == {TupleOf(key_to_data(k)) : k \in DOMAIN c}

most_recent(keys) == CHOOSE k \in keys : \A j \in keys : j[1] <= k[1]

(* C30: a checkpoint scan for a date D returns, for every tuple in scope    *)
(* that has a checkpoint dated at or before the first day of D's month (or  *)
(* the latest persisted checkpoint date, if that is earlier), the balance   *)
(* of the most recent such checkpoint; no tuple with an earlier checkpoint  *)
(* is left out.                                                             *)
C30_ScanReturnsMostRecent ==
  Quiescent =>
    \A date \in QueryDates : \A t \in checkpointed(chk) :
      LET keys == checkpoints_until(chk, t, scan_date(latest, date))
          all == get_checkpoints_for_all(chk, latest, date).balances
          one == get_checkpoints_for_one_goods(chk, latest, t.store, t.goods, date)
      IN keys # {} =>
           /\ t \in DOMAIN all
           /\ all[t] = chk[most_recent(keys)]
           /\ \E b \in one : b.batch = t.batch /\ b.number = chk[most_recent(keys)]


----------------------------------------------------------------------------
(* Properties of the checkpoint store.                                      *)

(* the boundary that closes the month of a stored operation *)
boundary_of(entry) ==
  CheckKey(entry.op.store, entry.op.goods, entry.op.batch,
           first_day_next_month(entry.op.date))

----------------------------------------------------------------------------
(* Composite keys as bytes.  A number is held in as many bytes as its type  *)
(* has; the model's numbers stay below 2^31, so the bytes above the lowest  *)
(* four are zero.                                                           *)

U64Width == 8
UuidWidth == 16
ByteRange == 256

RECURSIVE power(_, _)
power(b, e) == IF e = 0 THEN 1 ELSE b * power(b, e - 1)

(* u64::to_be_bytes, u8::to_be_bytes: most significant byte first *)
to_be_bytes(n, width) ==
  [i \in 1..width |->
     IF width - i > 3 THEN 0 ELSE (n \div power(ByteRange, width - i)) % ByteRange]

(* Uuid::as_bytes: the sixteen bytes of the identifier, in order *)
as_bytes(uuid) == to_be_bytes(uuid, UuidWidth)

(* Batch::to_bytes(&goods): goods, then the batch's date and id *)
batch_to_bytes(batch, goods) ==
  as_bytes(goods) \o to_be_bytes(batch.date, U64Width) \o as_bytes(batch.id)

(* DateTypeStoreBatchId::key_build, byte by byte *)
key_build_bytes(store, goods, batch, date, order, op_id, is_dependant) ==
  to_be_bytes(date, U64Width) \o to_be_bytes(order, 1) \o as_bytes(store)
    \o batch_to_bytes(batch, goods) \o as_bytes(op_id)
    \o to_be_bytes(IF is_dependant THEN 1 ELSE 0, 1)

(* CheckDateStoreBatch::key of the service's store module, byte by byte *)
check_key_bytes(op, date) ==
  as_bytes(op.goods) \o to_be_bytes(date, U64Width) \o as_bytes(op.store)
    \o to_be_bytes(op.batch.date, U64Width) \o as_bytes(op.batch.id)

(* the inputs: timestamps on both sides of a byte's range, two of the rest *)
Timestamps == {U8_MAX, U8_MAX + 1}

KeyInputs ==
  [ts : Timestamps, op_order : {0, U8_MAX}, store : 1..2, goods : 1..2,
   batch : [date : Timestamps, id : 1..2], id : 1..2, is_dependent : BOOLEAN]

composed_of(t) ==
  [input |-> t,
   op_key |-> key_build_bytes(t.store, t.goods, t.batch, t.ts, t.op_order, t.id,
                              t.is_dependent),
   check_key |-> check_key_bytes(t, t.ts)]

(* two operations have their keys composed *)
Compose ==
  /\ composed = NoKeys
  /\ \E l \in KeyInputs, r \in KeyInputs :
       composed' = <<composed_of(l), composed_of(r)>>
  /\ UNCHANGED <<d_ops, page, a_pend, busVars>>
  /\ UNCHANGED recordVars
  /\ UNCHANGED animoVars
  /\ UNCHANGED queryVars
  /\ UNCHANGED docVars

InitKeys == InitWith({}, 0)

NextKeys == Compose

SpecKeys == InitKeys /\ [][NextKeys]_vars

(* the tuples the keys are meant to be ordered by *)
op_tuple(t) ==
  <<t.ts, t.op_order, t.store, t.goods, t.batch.date, t.batch.id, t.id,
    IF t.is_dependent THEN 1 ELSE 0>>

check_tuple(t) == <<t.ts, t.store, t.goods, t.batch.date, t.batch.id>>

(* C32: for any two operations (or checkpoints) the lexicographic           *)
(* comparison of the composed keys equals the comparison of the tuples      *)
(* (ts, op_order, store, goods, batch.date, batch.id, op.id, dep_flag),     *)
(* respectively (ts, store, goods, batch.date, batch.id); big-endian        *)
(* timestamps compare in numeric order.                                     *)
C32_KeyOrderIsTupleOrder ==
  composed # NoKeys =>
    LET l == composed[1]
        r == composed[2]
    IN /\ LexLess(l.op_key, r.op_key) <=> LexLess(op_tuple(l.input), op_tuple(r.input))
       /\ LexLess(l.check_key, r.check_key)
            <=> LexLess(check_tuple(l.input), check_tuple(r.input))


----------------------------------------------------------------------------
(* Batches bought at different prices: the receives of a batch cost the     *)
(* batch's unit price, the issues name no batch.                            *)

unit_price(b) == (b.id + 1) * UnitCost

priced_mutations ==
  {[id |-> calls + 1, date |-> d, store |-> s, goods |-> g, batch |-> b,
    before |-> None, after |-> Receive(q, q * unit_price(b))] :
      d \in OpDates, s \in Stores, g \in GoodsIds, b \in Batches, q \in 1..MaxQty}
  \cup
  {[id |-> calls + 1, date |-> d, store |-> s, goods |-> g, batch |-> EmptyBatch,
    before |-> None, after |-> IssueMode(q, q * UnitCost, "Auto")] :
      d \in OpDates, s \in Stores, g \in GoodsIds, q \in 1..MaxIssueQty}

RecordPriced == record_one(priced_mutations)

NextCost == RecordPriced

SpecCost == InitFifo /\ [][NextCost]_vars

(* C33: each dependent child of an issue resolved into batches carries the *)
(* cost (batch balance cost / batch balance qty at the issue instant) times *)
(* the qty allocated to it: the children are priced at the average unit     *)
(* prices of their batches.                                                 *)
C33_ChildCostAtBatchAverage ==
  issue_recorded =>
    \A kid \in children_of(ops, hist[Len(hist)].list[1]) :
      kid.batch # EmptyBatch =>
        /\ projected_before[kid.batch].qty > 0
        /\ kid.op.cost * projected_before[kid.batch].qty
             = projected_before[kid.batch].cost * kid.op.qty

(* an issue resolved into children of two batches at two unit prices *)
C33_TwoPrices ==
  /\ issue_recorded
  /\ \E a \in children_of(ops, hist[Len(hist)].list[1]) :
       \E b \in children_of(ops, hist[Len(hist)].list[1]) :
         /\ a.batch = TheBatch /\ b.batch = BatchB
         /\ a.op.cost = a.op.qty * unit_price(TheBatch)
         /\ b.op.cost = b.op.qty * unit_price(BatchB)


----------------------------------------------------------------------------
(* Properties of the dependent operations.                                  *)

(* Dependant::tuple of a stored operation, as a parent refers to it *)
reference_to(op) == [store |-> op.store, batch |-> op.batch, op_order |-> op_order(op.op)]

(* the stored operations with the id, date and goods of child whose        *)
(* dependant list refers to it                                              *)
parents_of(cf, child) ==
  {cf[k].op : k \in {j \in DOMAIN cf :
                       /\ ~cf[j].op.is_dependent
                       /\ cf[j].op.id = child.id
                       /\ cf[j].op.date = child.date
                       /\ cf[j].op.goods = child.goods
                       /\ \E i \in 1..Len(cf[j].op.dependant) :
                            cf[j].op.dependant[i] = reference_to(child)}}

(* C34: no dependent operation is an orphan: every stored operation with   *)
(* is_dependent = true has exactly one stored parent at the same date and   *)
(* goods whose dependant list refers to it.                                 *)
C34_NoOrphans ==
  \A k \in DOMAIN ops :
    ops[k].op.is_dependent => Cardinality(parents_of(ops, ops[k].op)) = 1


(* the children the last call would have made, had the map handed out its  *)
(* batches in the given order                                               *)
children_in(order) ==
  LET call == hist[Len(hist)]
      m == call.list[1]
  IN resolve(call.before.ops,
             get_checkpoints_for_one_goods(call.before.chk, call.before.latest,
                                           m.store, m.goods, m.date), m, order)

(* the children are in the order of (batch.date, batch.id), a remainder last *)
in_batch_order(children) ==
  \A i \in 1..Len(children) : \A j \in (i + 1)..Len(children) :
    children[j].batch = EmptyBatch \/ batch_before(children[i].batch, children[j].batch)

(* C35: batch resolution is deterministic: two runs from the same state     *)
(* recording the same issue without a batch produce the same children in    *)
(* the same order, sorted by (batch.date, batch.id), and leave the same     *)
(* state, whatever the order in which the map hands out the batches.        *)
C35_ResolutionDeterministic ==
  issue_recorded =>
    \A order \in iteration_orders :
      /\ \A other \in iteration_orders : children_in(order) = children_in(other)
      /\ in_batch_order(children_in(order))
      /\ record_resolved(hist[Len(hist)].before, hist[Len(hist)].list[1], order) = KV

(* an issue that leaves both batches with less, and a map that hands them  *)
(* out latest first                                                         *)
C35_TwoChildrenAnyOrder ==
  /\ issue_recorded
  /\ Len(children_in(<<BatchB, TheBatch>>)) = Cardinality(Batches)
  /\ children_in(<<BatchB, TheBatch>>)[1].batch = TheBatch
  /\ children_in(<<BatchB, TheBatch>>)[2].batch = BatchB

-----------------------------------------------------------------------------
(* Document Log in a warehouse context: save_data hands the new body and  *)
(* the previous one to receive_data before the version file is saved      *)

(* JsonValue::Null *)
Null == 0

(* the goods lines of a body, by _tid: body b has the lines 1..b, each   *)
(* with qty b; Null has none                                             *)
lines_of(body) == [tid \in 1..body |-> [qty |-> body]]

(* the operations of a document: one per goods line, with the line's id *)
project(body) == [tid \in DOMAIN lines_of(body) |-> [id |-> tid, qty |-> lines_of(body)[tid].qty]]

(* the OpMutation list of a write: per line of either body, the operation *)
(* before and the operation after                                        *)
mutations_of(before, data) ==
  {[id |-> tid,
    before |-> IF tid \in DOMAIN project(before) THEN <<project(before)[tid]>> ELSE <<>>,
    after |-> IF tid \in DOMAIN project(data) THEN <<project(data)[tid]>> ELSE <<>>] :
     tid \in DOMAIN project(before) \cup DOMAIN project(data)}

(* the Op Processor takes the list: an after is put under the id of its  *)
(* operation, a before without an after is deleted                       *)
receive_data(doc_ops, data, before) ==
  LET ms == mutations_of(before, data)
      deleted == {m.id : m \in {x \in ms : x.after = <<>>}}
      inserted == {m.id : m \in {x \in ms : x.after # <<>>}}
  IN [tid \in (DOMAIN doc_ops \ deleted) \cup inserted |->
        IF tid \in inserted THEN project(data)[tid] ELSE doc_ops[tid]]

(* load(&path_latest), Err(_) => JsonValue::Null *)
before_of(files, link) ==
  IF load(files, link).ok THEN load(files, link).value ELSE Null

(* create or update of a document under warehouse/: the previous body is *)
(* loaded, receive_data records the mutations, and the save follows      *)
DocStartWarehouse ==
  /\ d_pc = "idle"
  /\ Len(d_log) < MaxWrites
  /\ \E b \in Bodies :
       /\ d_req' = [time |-> d_clock, body |-> b]
       /\ d_ops' = receive_data(d_ops, b, before_of(d_files, d_link))
  /\ d_pc' = "save"
  /\ UNCHANGED <<d_files, d_link, d_clock, d_log>>
  /\ UNCHANGED <<composed, page, a_pend, busVars>>
  /\ UNCHANGED recordVars
  /\ UNCHANGED animoVars
  /\ UNCHANGED queryVars

NextWarehouse ==
  \/ DocStartWarehouse
  \/ DocOpen
  \/ DocWrite
  \/ DocRemoveSymlink
  \/ DocSymlink
  \/ DocFail
  \/ Tick

SpecWarehouse == InitDoc /\ [][NextWarehouse]_vars

(* C36: after any sequence of document writes in a warehouse context,     *)
(* successful or failed, the operations stored for the document are       *)
(* exactly those projected from the body that latest.json resolves to; a  *)
(* write that fails in the file save or the symlink update leaves no      *)
(* operation mutation behind                                              *)
C36_LogAndOpsAgree ==
  d_pc = "idle" => d_ops = project(before_of(d_files, d_link))

-----------------------------------------------------------------------------
(* Service::limit: the page size of a find request *)

MaxLimit == 150

DEFAULT_LIMIT == 10

LIMIT_CAP == 100

(* the $limit of a request: absent, or a number *)
Limits == {<<>>} \cup {<<n>> : n \in (0 - MaxLimit)..MaxLimit}

(* the params of a request: the object, or an array with the object first *)
ParamsSet ==
  {[is_array |-> a, object |-> [limit |-> l]] : a \in BOOLEAN, l \in Limits}

(* if params.is_array() { &params[0] } else { params } *)
first_params(params) == params.object

(* params["$limit"].as_number() *)
as_number(object) == object.limit

(* usize::try_from(limit): a negative number is out of scope *)
usize_try_from(n) == IF n < 0 THEN Err("NumberOutOfScope") ELSE Ok(n)

unwrap_or(res, default) == IF res.ok THEN res.value ELSE default

(* Ord::min *)
min_of(a, b) == IF a <= b THEN a ELSE b

(* Ord::max *)
max_of(a, b) == IF a >= b THEN a ELSE b

limit(params) ==
  LET number == as_number(first_params(params))
  IN IF number # <<>>
       THEN max_of(unwrap_or(usize_try_from(number[1]), DEFAULT_LIMIT), LIMIT_CAP)
       ELSE DEFAULT_LIMIT

(* one call of limit *)
Limit ==
  /\ page = NoPage
  /\ \E params \in ParamsSet :
       page' = [params |-> params, limit |-> limit(params)]
  /\ UNCHANGED <<composed, d_ops, a_pend, busVars>>
  /\ UNCHANGED recordVars
  /\ UNCHANGED animoVars
  /\ UNCHANGED queryVars
  /\ UNCHANGED docVars

InitLimit == InitWith({}, 0)

NextLimit == Limit

SpecLimit == InitLimit /\ [][NextLimit]_vars

(* C37: limit(params) returns min(user_limit, 100) when $limit is given   *)
(* and 10 when it is absent, so its result never exceeds 100              *)
C37_LimitIsCapped ==
  page # NoPage =>
    LET given == as_number(first_params(page.params))
    IN /\ given = <<>> => page.limit = DEFAULT_LIMIT
       /\ (given # <<>> /\ given[1] >= 0) => page.limit = min_of(given[1], LIMIT_CAP)
       /\ page.limit <= LIMIT_CAP

-----------------------------------------------------------------------------
(* The animo engine with a reader and a writer at once: get_memo reads    *)
(* from its snapshot and puts the memo into the database; on_mutation     *)
(* reads from its snapshot, fills the batch of its transaction and        *)
(* commits it                                                            *)

MaxRaceCalls == 3

(* get_memo puts the memo unless the closest memo is at the position *)
stores_memo(db, store, goods, time) ==
  LET position == local_topology_position_of_memo(store, goods, time)
      closest == get_closest_memo(db.values, position)
  IN closest = <<>> \/ closest[1] # position

(* a call begins while the other one is in progress *)
overlap(pending) == pending.overlapped \/ pending.read # <<>> \/ pending.txn # <<>>

(* the reader takes its snapshot *)
ReadSnapshot ==
  /\ a_calls < MaxRaceCalls
  /\ a_pend.read = <<>>
  /\ \E store \in Stores, goods \in AGoods, time \in ATimes :
       a_pend' = [a_pend EXCEPT
                    !.read = <<[db |-> AnimoDB, store |-> store, goods |-> goods, time |-> time]>>,
                    !.overlapped = a_pend.txn # <<>>]
  /\ a_calls' = a_calls + 1
  /\ UNCHANGED <<a_ops, a_values, a_stock, a_read>>
  /\ UNCHANGED <<composed, d_ops, page, busVars>>
  /\ UNCHANGED recordVars
  /\ UNCHANGED queryVars
  /\ UNCHANGED docVars

(* get_memo computes the balance from the snapshot and stores the memo: *)
(* s.rf.db.put_cf(&s.cf_memos(), position, balance)                     *)
ReadStore ==
  /\ a_pend.read # <<>>
  /\ LET r == a_pend.read[1]
         memo == get_memo(r.db, r.store, r.goods, r.time)
         position == local_topology_position_of_memo(r.store, r.goods, r.time)
     IN /\ a_values' =
             IF stores_memo(r.db, r.store, r.goods, r.time)
             THEN [k \in DOMAIN a_values \cup {position} |->
                     IF k = position THEN memo.balance ELSE a_values[k]]
             ELSE a_values
        /\ a_read' = [store |-> r.store, goods |-> r.goods, time |-> r.time,
                      balance |-> memo.balance]
  /\ a_pend' = [a_pend EXCEPT !.read = <<>>]
  /\ UNCHANGED <<a_ops, a_stock, a_calls>>
  /\ UNCHANGED <<composed, d_ops, page, busVars>>
  /\ UNCHANGED recordVars
  /\ UNCHANGED queryVars
  /\ UNCHANGED docVars

(* on_mutation up to tx.commit(): the batch holds the operation, the     *)
(* memos after its position as the snapshot has them, with the delta     *)
(* applied, and the aggregation                                          *)
MutationBatch ==
  /\ a_calls < MaxRaceCalls
  /\ a_pend.txn = <<>>
  /\ \E store \in Stores, goods \in AGoods, time \in ATimes, op \in BalanceOperations :
       LET position == position_of_operation(store, goods, time, op)
           before == IF position \in DOMAIN a_ops THEN <<a_ops[position]>> ELSE <<>>
           written == write_ops(AnimoDB, store, goods, time, op)
       IN a_pend' = [a_pend EXCEPT
                       !.txn = <<[ops |-> written.ops,
                                  updated |-> memos_after(a_values, position),
                                  values |-> written.values,
                                  stock |-> write_aggregation_delta(a_stock, store, goods, time,
                                                                    delta(before, op))]>>,
                       !.overlapped = a_pend.read # <<>>]
  /\ a_calls' = a_calls + 1
  /\ UNCHANGED <<a_ops, a_values, a_stock, a_read>>
  /\ UNCHANGED <<composed, d_ops, page, busVars>>
  /\ UNCHANGED recordVars
  /\ UNCHANGED queryVars
  /\ UNCHANGED docVars

(* tx.commit(): db.write(batch) puts the keys of the batch; the one      *)
(* writer is the only one to put operations and aggregations             *)
MutationCommit ==
  /\ a_pend.txn # <<>>
  /\ LET tx == a_pend.txn[1]
     IN /\ a_ops' = tx.ops
        /\ a_values' = [k \in DOMAIN a_values |->
                          IF k \in tx.updated THEN tx.values[k] ELSE a_values[k]]
        /\ a_stock' = tx.stock
  /\ a_pend' = [a_pend EXCEPT !.txn = <<>>]
  /\ UNCHANGED <<a_read, a_calls>>
  /\ UNCHANGED <<composed, d_ops, page, busVars>>
  /\ UNCHANGED recordVars
  /\ UNCHANGED queryVars
  /\ UNCHANGED docVars

NextMemoRace ==
  \/ ReadSnapshot
  \/ ReadStore
  \/ MutationBatch
  \/ MutationCommit

SpecMemoRace == InitAnimo /\ [][NextMemoRace]_vars

(* the memo equals the balance recomputed from the stored operations up  *)
(* to its position                                                      *)
memo_coherent(values, cf, k) ==
  values[k] = sum_of_operations(cf, k[1], k[2], k[3])

(* C38: when a balance read interleaves with a concurrent mutation and    *)
(* its propagation, then once both have finished every stored memo equals *)
(* the balance recomputed from the stored operations up to the memo's     *)
(* position: no stale memo survives                                       *)
C38_MemoCoherentAfterRace ==
  (a_pend.overlapped /\ a_pend.read = <<>> /\ a_pend.txn = <<>>) =>
    \A k \in DOMAIN a_values : memo_coherent(a_values, a_ops, k)

-----------------------------------------------------------------------------
(* Checkpoint point lookup: get_checkpoint_for_goods_and_batch *)

(* the default column family of the database, which self.db.get(key) and *)
(* Db::put use: the topologies put under their own column families, and  *)
(* nothing puts a checkpoint here                                        *)
default_cf == EmptyCF

(* the Balance under the key of (boundary, store, goods, batch), read    *)
(* with self.db.get(key)                                                 *)
get_checkpoint_for_goods_and_batch(cf, l, store, goods, batch, date) ==
  LET current_date == first_day_current_month(date)
      latest_checkpoint_date == get_latest_checkpoint_date(l)
      ts == IF current_date > latest_checkpoint_date
            THEN latest_checkpoint_date ELSE current_date
      key == <<ts, store, goods, batch.date, batch.id>>
  IN IF key \in DOMAIN cf
     THEN <<[date |-> date, store |-> store, goods |-> goods, batch |-> batch,
             number |-> cf[key]]>>
     ELSE <<>>

(* the entries of the scan for the batch *)
scanned_for(store, goods, batch, date) ==
  {b \in get_checkpoints_for_one_goods(chk, latest, store, goods, date) : b.batch = batch}

(* C39: in every reachable state and for every (store, goods, batch,      *)
(* date), get_checkpoint_for_goods_and_batch returns Some(balance)        *)
(* exactly when get_checkpoints_for_one_goods for the same store, goods   *)
(* and date contains an entry for that batch, and with the same balance   *)
(* as written by set_balance                                              *)
C39_LookupAgreesWithScan ==
  \A store \in Stores, goods \in GoodsIds, batch \in Batches, date \in QueryDates :
    LET found == get_checkpoint_for_goods_and_batch(default_cf, latest, store, goods, batch, date)
        scanned == scanned_for(store, goods, batch, date)
    IN /\ found # <<>> <=> scanned # {}
       /\ found # <<>> => \A b \in scanned : b.number = found[1].number

-----------------------------------------------------------------------------
(* The commutator: Application::handle and emit, the channel of events,   *)
(* the broadcasting thread of Commutator::new, Connect and Disconnect     *)

MaxMutations == 3

NSessions == 2

ChannelCapacity == 1

Sids == 1..NSessions

ServiceNames == {"authentication", "users", "memories"}

(* the services emit closes: authentication and users *)
ClosedServices == {"authentication", "users"}

Kinds == {"Create", "Remove"}

(* Event::Created(name, data), Event::Removed(name, data) *)
event_of(m) ==
  [kind |-> IF m.kind = "Create" THEN "Created" ELSE "Removed", service |-> m.service, id |-> m.id]

(* format!("{name} created"), format!("{name} removed") *)
event_name(event) ==
  <<event.service, IF event.kind = "Created" THEN "created" ELSE "removed">>

(* handle: the service serves the mutation; an Err is returned at once, *)
(* an Ok goes on to emit                                                *)
Handle(c) ==
  /\ handling[c].pc = "idle"
  /\ Len(completed) < MaxMutations
  /\ \E service \in ServiceNames, kind \in Kinds, ok \in BOOLEAN :
       LET m == [pc |-> "emit", id |-> Len(completed) + 1, service |-> service, kind |-> kind]
       IN /\ completed' = Append(completed, [id |-> m.id, service |-> service, ok |-> ok])
          /\ handling' = IF ok THEN [handling EXCEPT ![c] = m] ELSE handling
  /\ UNCHANGED <<sessions, events, in_hand, sent>>
  /\ UNCHANGED <<composed, d_ops, page, a_pend>>
  /\ UNCHANGED recordVars
  /\ UNCHANGED animoVars
  /\ UNCHANGED queryVars
  /\ UNCHANGED docVars

(* emit: nothing for a closed service; else self.events.send(event),    *)
(* which waits while the channel is full; then handle returns the data  *)
Emit(c) ==
  /\ handling[c].pc = "emit"
  /\ IF handling[c].service \in ClosedServices
     THEN events' = events
     ELSE /\ Len(events) < ChannelCapacity
          /\ events' = Append(events, event_of(handling[c]))
  /\ handling' = [handling EXCEPT ![c] = NoMutation]
  /\ UNCHANGED <<sessions, in_hand, sent, completed>>
  /\ UNCHANGED <<composed, d_ops, page, a_pend>>
  /\ UNCHANGED recordVars
  /\ UNCHANGED animoVars
  /\ UNCHANGED queryVars
  /\ UNCHANGED docVars

(* the broadcasting thread: events.recv() *)
Recv ==
  /\ in_hand = <<>>
  /\ events # <<>>
  /\ in_hand' = <<Head(events)>>
  /\ events' = Tail(events)
  /\ UNCHANGED <<sessions, handling, sent, completed>>
  /\ UNCHANGED <<composed, d_ops, page, a_pend>>
  /\ UNCHANGED recordVars
  /\ UNCHANGED animoVars
  /\ UNCHANGED queryVars
  /\ UNCHANGED docVars

(* the broadcasting thread: event_to_all, under the read lock of the    *)
(* sessions: socket.do_send to every session of the map                 *)
EventToAll ==
  /\ in_hand # <<>>
  /\ sent' = Append(sent, [event |-> in_hand[1], data |-> event_name(in_hand[1]), to |-> sessions])
  /\ in_hand' = <<>>
  /\ UNCHANGED <<sessions, events, handling, completed>>
  /\ UNCHANGED <<composed, d_ops, page, a_pend>>
  /\ UNCHANGED recordVars
  /\ UNCHANGED animoVars
  /\ UNCHANGED queryVars
  /\ UNCHANGED docVars

(* Handler<Connect>, run by the actor between its messages *)
Connect(sid) ==
  /\ handling["actor"].pc = "idle"
  /\ sessions' = sessions \cup {sid}
  /\ UNCHANGED <<events, handling, in_hand, sent, completed>>
  /\ UNCHANGED <<composed, d_ops, page, a_pend>>
  /\ UNCHANGED recordVars
  /\ UNCHANGED animoVars
  /\ UNCHANGED queryVars
  /\ UNCHANGED docVars

(* Handler<Disconnect>, run by the actor between its messages *)
Disconnect(sid) ==
  /\ handling["actor"].pc = "idle"
  /\ sessions' = sessions \ {sid}
  /\ UNCHANGED <<events, handling, in_hand, sent, completed>>
  /\ UNCHANGED <<composed, d_ops, page, a_pend>>
  /\ UNCHANGED recordVars
  /\ UNCHANGED animoVars
  /\ UNCHANGED queryVars
  /\ UNCHANGED docVars

InitCommutator == InitWith({}, 0)

NextCommutator ==
  \/ \E c \in Callers : Handle(c)
  \/ \E c \in Callers : Emit(c)
  \/ Recv
  \/ EventToAll
  \/ \E sid \in Sids : Connect(sid)
  \/ \E sid \in Sids : Disconnect(sid)

SpecCommutator == InitCommutator /\ [][NextCommutator]_vars

(* the threads go on: a caller that can send does, the broadcasting     *)
(* thread receives and sends                                            *)
SpecCommutatorLive ==
  /\ SpecCommutator
  /\ \A c \in Callers : WF_vars(Emit(c))
  /\ WF_vars(Recv)
  /\ WF_vars(EventToAll)

(* the mutations that are to be broadcast: served Ok by an open service *)
broadcastable == {i \in 1..Len(completed) : completed[i].ok /\ completed[i].service \notin ClosedServices}

(* nothing is in flight: no caller in handle, no event in the channel or *)
(* in the hands of the broadcasting thread                              *)
settled ==
  /\ \A c \in Callers : handling[c].pc = "idle"
  /\ events = <<>>
  /\ in_hand = <<>>

(* every event sent is of a broadcastable mutation and is sent once, and *)
(* when all is settled every broadcastable mutation has been sent       *)
sent_exactly_once ==
  /\ \A i \in 1..Len(sent) : sent[i].event.id \in broadcastable
  /\ \A i \in 1..Len(sent) : \A j \in 1..Len(sent) : sent[i].event.id = sent[j].event.id => i = j
  /\ settled => \A id \in broadcastable : \E i \in 1..Len(sent) : sent[i].event.id = id

(* handle() eventually returns *)
handle_returns == \A c \in Callers : (handling[c].pc = "emit") ~> (handling[c].pc = "idle")

(* C40: every successful mutation handled for a service other than        *)
(* authentication and users results in exactly one event delivered to     *)
(* every session connected at delivery time, in the order the mutations   *)
(* completed: the events are sent in the order in which the services      *)
(* completed their mutations                                              *)
C40_EventsInCompletionOrder ==
  \A i \in 1..Len(sent) : \A j \in 1..Len(sent) :
    i < j => sent[i].event.id < sent[j].event.id

====
